---- MODULE Spec2Model ----
(***************************************************************************)
(* starfx: the action bus, the supervisor strategies of a thunk, and the   *)
(* store's update pipeline.                                                *)
(*                                                                         *)
(* One store, one thunk (action type "T") whose supervisor strategy is     *)
(* fixed when the thunk is created, an independent subscriber of the       *)
(* action bus, store listeners, and a client that dispatches actions and   *)
(* issues update() calls of its own.                                       *)
(*                                                                         *)
(* Scheduling is JavaScript's: the runtime is single-threaded and          *)
(* cooperative, so an external event (a dispatch from outside, the         *)
(* completion of awaited I/O, a new client call) is only delivered when    *)
(* no task has a continuation ready to run (Quiescent).  Continuations     *)
(* that are ready interleave freely among themselves.                      *)
(***************************************************************************)
EXTENDS Integers, Sequences, FiniteSets, TLC

\* ---- bounds of the model ----
MaxDispatch == 3        \* actions passed to dispatch()/put() in one behaviour
MaxClientUpdates == 3   \* update()/reset() calls issued by the client itself

\* ---- names ----
ThunkType == "T"        \* createType(name), the thunk's action type
OtherType == "X"        \* an action type no thunk is registered for
StoreType == "store"    \* `${API_ACTION_PREFIX}store`, emitted by logMdw
Client == 0             \* caller id of update() calls made through store.run
Listeners == {"L1"}
Kinds == {"every", "latest", "leading"}

\* Patterns an independent subscriber may use (string, wildcard, array).
Wild == [tag |-> "str", type |-> "*", items |-> <<>>]
StrPattern(t) == [tag |-> "str", type |-> t, items |-> <<>>]
ArrPattern(ts) == [tag |-> "arr", type |-> "", items |-> ts]
Patterns == {Wild, StrPattern(ThunkType), ArrPattern(<<OtherType, StoreType>>)}

VARIABLES
  kind,        \* supervisor strategy of the thunk (create's `supervisor`)
  sup,         \* the supervisor task: [pc, cur, lastTask]
  subs,        \* signal subscribers: name -> [pattern, queue, sent]
  obs,         \* the independent subscriber task: [pc]
  observed,    \* actions the independent subscriber has received, in order
  inst,        \* handler instances: id -> [pc, act, call]
  nInst,       \* number of handler instances created so far
  nEmit,       \* number of actions sent on the signal so far
  nDisp,       \* number of actions passed to dispatch()/put() so far
  calls,       \* update() calls: id -> UpdaterCtx and pipeline position
  state,       \* the store's snapshot (createStore's `state`)
  committed,   \* ids of the update() calls whose mutation stage has run
  listeners,   \* createStore's `listeners` set
  middleware,  \* createStore's `middleware` option
  chan,        \* number of messages sent on the StoreUpdateContext channel
  superseded,  \* instances that were suspended when a later action arrived
  busySent,    \* ids of thunk actions sent while a handler instance ran
  idleSent,    \* ids of thunk actions sent to a waiting, idle supervisor
  nClient,     \* number of client update()/reset() calls so far
  directSets,  \* number of direct store.setState() calls by the client
  stack,       \* compose's `middleware` array: next() calls each stage makes
  mdw,         \* composeFn's optional tail middleware (none, or one stage)
  index,       \* composeFn's `index`, the last dispatched position
  frames,      \* the dispatch(i) calls in progress, innermost last
  log,         \* what the stages have executed, in order
  cstat,       \* the composed call: "idle", "run", "done" or "thrown"
  now,         \* the clock, in ticks
  map,         \* onTimer's throttle `map`: the keys that have a task
  tact,        \* activate tasks: key -> [pc, deadline]
  tq,          \* queue of the subscription behind onTimer's current take
  nBurst,      \* number of dispatch calls made to the timer's bus
  runs,        \* key -> number of handler invocations started
  invokedAt,   \* key -> time of the dispatch that last invoked the handler
  returnedAt,  \* key -> time that handler invocation returned (-1: not yet)
  evictedBy,   \* key -> what last removed it from the map
  owed,        \* keys dispatched while not in the map and not yet invoked
  ignored,     \* key -> number of actions onTimer took and did not invoke
  clearedIn,   \* key -> phase its task was in when a clear-timers named it
  cancelType,  \* poll's `cancelType` argument ("" when it is not given)
  ppc,         \* the poller: "take" (outer take) or "race"
  pq,          \* queue of the subscription behind the poller's outer take
  pwon,        \* the race's take(cancel) has received an action
  pfire,       \* fire: [pc, deadline], pc is "none", "op" or "sleep"
  ptimer,      \* the `timer` of the current run
  pnow,        \* the poller's clock, in ticks
  pBurst,      \* number of dispatch calls made to the poller's bus
  nTrig,       \* number of those that held an action of the polled type
  invoked,     \* handler invocations started
  returned,    \* handler invocations that returned
  haltedOps,   \* handler invocations halted while in flight
  pret,        \* time the last handler invocation returned
  mustStop,    \* a cancellation was dispatched into the run that is active
  pact,        \* the action that started the current run (fire's `action`)
  watch,       \* createThunks' replay signal: the durable queue's `items`
  storeRegistration, \* createThunks' set of registered store ids
  reg,         \* register() calls: [pc, store, iter, notify, inbox, got]
  visors,      \* <<store id, thunk>> -> number of supervisors started
  ran,         \* handler runs caused by the last dispatch (-1: none yet)
  ritems,      \* a replay signal's durable queue: `items`
  rsubs,       \* its subscribers: [pc, iter, notify, inbox, got]
  attempt,     \* supervise's `attempt`
  waitFor,     \* supervise's `waitFor`
  spc,         \* supervise: "loop", "op", "sleep" or "ended"
  opRuns,      \* number of times supervise has run the operation
  diag,        \* the `supervise` actions put so far: [payload, waitFor]
  sleeping,    \* duration of the sleep supervise is in (0: none)
  allFailed,   \* every run of the operation so far has failed
  einst,       \* handler instances behind mdw.err: [pc, result, threw, ...]
  esup,        \* their takeEvery supervisor loop: "alive" or "dead"
  errActs,     \* the `error:query` actions put so far: [ctx, message]
  nErrDisp,    \* thunk actions dispatched to that supervisor so far
  mres,        \* managed resources: name -> [pc, starts, cleanups]
  mtasks,      \* running tasks of the store: watch loop, A.register, B.register
  mctx,        \* scope -> names of the contexts set on it (scope.set)
  malive,      \* the store's scope has not been torn down
  mread,       \* the last handle.get() / handle.expect(): what it returned
  kname,       \* createKey's `name`, as a sequence of characters
  kp1,         \* a payload
  kp2,         \* a payload with the members of kp1, inserted in another order
  kkeys,       \* <<createKey(name, kp1), createKey(name, kp2)>> once called
  tkind,       \* createThunks' `supervisor`: "every" or "leading"
  tnext,       \* the thunks' static handlers call next
  tcount,      \* name -> number of create(name, ...) calls so far
  treg,        \* thunks.register runs in the store
  tdyn,        \* dynamicMiddlewareMap: name -> the composed stages
  tused,       \* name -> the middleware of the last use() since the last reset
  tbusy,       \* name -> a handler instance spawned for it is suspended
  tbus,        \* number of actions emitted on the action bus
  tinst,       \* number of handler instances spawned by supervisors
  tlast,       \* the last dispatch or run: [via, name, times, trace, threw]
  tops,        \* number of calls made on the thunks so far
  bnotifying,  \* createBatchMdw's `notifying` flag
  bstate,      \* the store's snapshot: how many updates have been committed
  bcalls,      \* the update() calls made so far, each with its position
  bqueue,      \* calls whose send callback the queue still holds
  blog,        \* store actions emitted by logMdw
  bchan,       \* signals sent on the store update channel
  blisten,     \* what the listeners read, one entry per notification
  vdisp,       \* thunk actions dispatched while its supervisor is supervised
  vtaken,      \* how many of them takeEvery's loop spawned a handler for
  vrunning,    \* handler instances of the thunk that are running
  vhalted,     \* handler instances halted with their supervisor loop
  vlate        \* thunk actions dispatched after supervise had returned

composeVars == <<stack, mdw, index, frames, log, cstat>>
timerVars == <<now, map, tact, tq, nBurst, runs, invokedAt, returnedAt,
               evictedBy, owed, ignored, clearedIn>>
pollVars == <<cancelType, ppc, pq, pwon, pfire, ptimer, pnow, pBurst, nTrig,
              invoked, returned, haltedOps, pret, mustStop, pact>>
regVars == <<watch, storeRegistration, reg, visors, ran>>
replayVars == <<ritems, rsubs>>
superVars == <<attempt, waitFor, spc, opRuns, diag, sleeping, allFailed>>
errVars == <<einst, esup, errActs, nErrDisp>>
manageVars == <<mres, mtasks, mctx, malive, mread>>
keyVars == <<kname, kp1, kp2, kkeys>>
thunkVars == <<tkind, tnext, tcount, treg, tdyn, tused, tbusy, tbus, tinst, tlast, tops>>
batchVars == <<bnotifying, bstate, bcalls, bqueue, blog, bchan, blisten>>
visorVars == <<vdisp, vtaken, vrunning, vhalted, vlate>>
ext == <<composeVars, timerVars, pollVars, regVars, replayVars, superVars,
         errVars, manageVars, keyVars, thunkVars, batchVars, visorVars>>

core == <<kind, sup, subs, obs, observed, inst, nInst, nEmit, nDisp, calls,
          state, committed, listeners, middleware, chan, superseded,
          busySent, idleSent, nClient, directSets>>
exceptCompose == <<core, timerVars, pollVars, regVars, replayVars, superVars,
  errVars, manageVars, keyVars, thunkVars, batchVars, visorVars>>
exceptTimer == <<core, composeVars, pollVars, regVars, replayVars, superVars,
  errVars, manageVars, keyVars, thunkVars, batchVars, visorVars>>
exceptPoll == <<core, composeVars, timerVars, regVars, replayVars, superVars,
  errVars, manageVars, keyVars, thunkVars, batchVars, visorVars>>
exceptReg == <<core, composeVars, timerVars, pollVars, replayVars, superVars,
  errVars, manageVars, keyVars, thunkVars, batchVars, visorVars>>
exceptReplay == <<core, composeVars, timerVars, pollVars, regVars, superVars,
  errVars, manageVars, keyVars, thunkVars, batchVars, visorVars>>
exceptSuper == <<core, composeVars, timerVars, pollVars, regVars, replayVars,
  errVars, manageVars, keyVars, thunkVars, batchVars, visorVars>>
exceptErr == <<core, composeVars, timerVars, pollVars, regVars, replayVars,
  superVars, manageVars, keyVars, thunkVars, batchVars, visorVars>>
exceptManage == <<core, composeVars, timerVars, pollVars, regVars, replayVars,
  superVars, errVars, keyVars, thunkVars, batchVars, visorVars>>
exceptKey == <<core, composeVars, timerVars, pollVars, regVars, replayVars,
  superVars, errVars, manageVars, thunkVars, batchVars, visorVars>>
exceptThunk == <<core, composeVars, timerVars, pollVars, regVars,
  replayVars, superVars, errVars, manageVars, keyVars, batchVars, visorVars>>
exceptBatch == <<core, composeVars, timerVars, pollVars, regVars,
  replayVars, superVars, errVars, manageVars, keyVars, thunkVars, visorVars>>
exceptVisor == <<core, composeVars, timerVars, pollVars, regVars,
  replayVars, superVars, errVars, manageVars, keyVars, thunkVars, batchVars>>

vars == <<core, ext>>

MaxInst == MaxDispatch
InstIds == 1..MaxInst
NoAction == [type |-> "", id |-> 0]
initialState == <<>>

\* ---- matcher.ts ----
RECURSIVE anyMatch(_, _)
anyMatch(items, input) ==
  IF items = <<>> THEN FALSE
  ELSE (Head(items) = "*" \/ Head(items) = input.type)
       \/ anyMatch(Tail(items), input)

matcher(pattern, input) ==
  IF pattern.tag = "str"
  THEN (pattern.type = "*" \/ pattern.type = input.type)
  ELSE anyMatch(pattern.items, input)

\* ---- queue.ts: createFilterQueue(predicate).add ----
add(sub, value) ==
  IF matcher(sub.pattern, value)
  THEN [sub EXCEPT !.queue = Append(@, value), !.sent = Append(@, value)]
  ELSE [sub EXCEPT !.sent = Append(@, value)]

\* signal.send(a): every subscriber's queue is offered the value.
send(ss, value) == [s \in DOMAIN ss |-> add(ss[s], value)]

\* An emit that walks the array from its end.
RECURSIVE emitBackwards(_, _)
emitBackwards(ss, action) ==
  IF action = <<>> THEN ss
  ELSE emitBackwards(send(ss, action[Len(action)]),
                     SubSeq(action, 1, Len(action) - 1))

\* ---- action.ts: emit ----
RECURSIVE emit(_, _)
emit(ss, action) ==
  IF action = <<>> THEN ss
  ELSE emit(send(ss, Head(action)), Tail(action))

\* The actions built from a list of types, numbered in emission order.
Stamp(types, from) ==
  [k \in 1..Len(types) |-> [type |-> types[k], id |-> from + k]]

Subscription(pattern) == [pattern |-> pattern, queue |-> <<>>, sent |-> <<>>]


\* ---- store.ts: the mutation stage (defaultStoreUpdater.updateMdw) ----
\* A mutator either pushes its own label onto the state or, for reset(),
\* restores the initial state.
Mutator(c, k) == [call |-> c, k |-> k, op |-> "push"]
ResetMutator(c) == [call |-> c, k |-> 1, op |-> "reset"]
Single(u) == [isArray |-> FALSE, items |-> <<u>>]
Array(us) == [isArray |-> TRUE, items |-> us]

updater(draft, u) ==
  IF u.op = "reset" THEN initialState ELSE Append(draft, <<u.call, u.k>>)

\* A mutation stage that only takes the first mutator of an array.
updsFirstOnly(ctxUpdater) == <<ctxUpdater.items[1]>>

upds(ctxUpdater) ==
  IF ctxUpdater.isArray THEN ctxUpdater.items ELSE <<ctxUpdater.items[1]>>

RECURSIVE forEach(_, _)
forEach(draft, us) ==
  IF us = <<>> THEN draft ELSE forEach(updater(draft, Head(us)), Tail(us))

RECURSIVE patchesOf(_, _)
patchesOf(draft, us) ==
  IF us = <<>> THEN <<>>
  ELSE <<[op |-> IF Head(us).op = "reset" THEN "replace" ELSE "add",
          by |-> <<Head(us).call, Head(us).k>>]>>
       \o patchesOf(updater(draft, Head(us)), Tail(us))

\* A getState that answers with the state the store was created with.
getStateAtCreation == initialState

getState == state

produceWithPatches(base, us) ==
  [nextState |-> forEach(base, us), patches |-> patchesOf(base, us)]

\* A pipeline that notifies the channel before it emits the store action.
pipelineChannelFirst ==
  <<"updateMdw">> \o middleware
    \o <<"notifyChannelMdw", "logMdw", "notifyListenersMdw">>

\* createUpdater: the composed pipeline, in compose order.
pipeline ==
  <<"updateMdw">> \o middleware
    \o <<"logMdw", "notifyChannelMdw", "notifyListenersMdw">>

\* ---- task positions ----
Terminal == {"none", "done", "halted"}
Running == {i \in InstIds : inst[i].pc \notin Terminal}
Subscribed(name) == name \in DOMAIN subs
SupIdle ==
  sup.pc = "wait" /\ Subscribed("sup") /\ subs["sup"].queue = <<>>

\* A halt() that returned without waiting for the teardown.
HaltDoneAtOnce(i) == TRUE

\* lastTask.halt() returns once the halted task has finished its teardown.
HaltDone(i) == inst[i].pc \in Terminal

\* A takeLatest that never halts the previous task.
NeverHalt(last) == FALSE

\* takeLatest: `if (lastTask) yield* lastTask.halt()`.
NeedsHalt(last) == last # 0

SupReady ==
  \/ sup.pc = "wait" /\ Subscribed("sup") /\ subs["sup"].queue # <<>>
  \/ sup.pc = "got"
  \/ sup.pc = "halting" /\ HaltDone(sup.lastTask)
  \/ sup.pc = "calling" /\ inst[sup.lastTask].pc \in Terminal
InstReady(i) == inst[i].pc \in {"start", "cleanup0"}
CallReady(c) == calls[c].status = "run" /\ ~calls[c].wait
ObsReady == obs.pc = "wait" /\ Subscribed("obs") /\ subs["obs"].queue # <<>>

\* No continuation is ready: control is back in the event loop.
Quiescent ==
  /\ ~SupReady
  /\ ~ObsReady
  /\ \A i \in InstIds : ~InstReady(i)
  /\ \A c \in 1..Len(calls) : ~CallReady(c)

\* ---- sending on the signal, with the bookkeeping of what was sent when ----
TIds(acts) == {acts[k].id : k \in {j \in 1..Len(acts) : acts[j].type = ThunkType}}
Min(S) == CHOOSE x \in S : \A y \in S : x <= y

Emit(acts) ==
  /\ subs' = emit(subs, acts)
  /\ nEmit' = nEmit + Len(acts)
  /\ superseded' =
       IF TIds(acts) # {} /\ Subscribed("sup")
       THEN superseded \cup {i \in InstIds : inst[i].pc = "await"}
       ELSE superseded
  /\ busySent' = IF Running # {} THEN busySent \cup TIds(acts) ELSE busySent
  /\ idleSent' =
       IF Running = {} /\ SupIdle /\ TIds(acts) # {}
       THEN idleSent \cup {Min(TIds(acts))}
       ELSE idleSent

NoEmit == UNCHANGED <<subs, nEmit, superseded, busySent, idleSent>>

\* Nothing has been composed yet.
ComposeIdle ==
  /\ stack = <<>>
  /\ mdw = <<>>
  /\ index = -1
  /\ frames = <<>>
  /\ log = <<>>
  /\ cstat = "idle"

Keys == {"k1", "k2"}
NoTask == [pc |-> "none", deadline |-> 0]

\* onTimer has not been started.
TimerIdle ==
  /\ now = 0
  /\ map = {}
  /\ tact = [k \in Keys |-> NoTask]
  /\ tq = <<>>
  /\ nBurst = 0
  /\ runs = [k \in Keys |-> 0]
  /\ invokedAt = [k \in Keys |-> -1]
  /\ returnedAt = [k \in Keys |-> -1]
  /\ evictedBy = [k \in Keys |-> "none"]
  /\ owed = {}
  /\ ignored = [k \in Keys |-> 0]
  /\ clearedIn = [k \in Keys |-> "none"]

NoFire == [pc |-> "none", deadline |-> 0]
PollType == "polled"
StopType == "stop-poll"
Stop == [type |-> StopType, payload |-> [timer |-> 0]]

\* No poller has been started.
PollIdle ==
  /\ cancelType = ""
  /\ ppc = "take"
  /\ pq = <<>>
  /\ pwon = FALSE
  /\ pfire = NoFire
  /\ ptimer = 0
  /\ pnow = 0
  /\ pBurst = 0
  /\ nTrig = 0
  /\ invoked = 0
  /\ returned = 0
  /\ haltedOps = 0
  /\ pret = 0
  /\ mustStop = FALSE
  /\ pact = Stop

MaxThunks == 3       \* thunks created on the one thunks instance
MaxRegister == 3     \* register() calls made in one behaviour
Thunks == 1..MaxThunks
Regs == 1..MaxRegister
StoreIds == {0, 1}   \* `id++` from `let id = 0`: the first two stores

\* An array iterator over `items`: its index, and whether it has returned
\* done (after which it stays done, whatever is pushed later).
NewIter == [index |-> 0, done |-> FALSE]
NoReg == [pc |-> "idle", store |-> 0, iter |-> NewIter, notify |-> FALSE,
          inbox |-> 0, got |-> <<>>]

\* createThunks() has returned; nothing is created or registered yet.
RegIdle ==
  /\ watch = <<>>
  /\ storeRegistration = {}
  /\ reg = [r \in Regs |-> NoReg]
  /\ visors = [x \in StoreIds \X Thunks |-> 0]
  /\ ran = -1

Subscribers == {"s1", "s2"}
NoSub == [pc |-> "none", iter |-> NewIter, notify |-> FALSE, inbox |-> 0,
          got |-> <<>>]

\* createReplaySignal() has returned; nothing is sent, nobody subscribes.
ReplayIdle ==
  /\ ritems = <<>>
  /\ rsubs = [x \in Subscribers |-> NoSub]

\* A superviseBackoff that gives up one attempt earlier.
backoffStopsEarly(a) == IF a >= 10 THEN -1 ELSE 2 ^ a * 10

\* superviseBackoff(attempt, max = 10)
superviseBackoff(a) == IF a > 10 THEN -1 ELSE 2 ^ a * 10

\* supervise(op)() has been called: `attempt = 1`, `waitFor = backoff(1)`.
SuperIdle ==
  /\ attempt = 1
  /\ waitFor = superviseBackoff(1)
  /\ spc = "loop"
  /\ opRuns = 0
  /\ diag = <<>>
  /\ sleeping = 0
  /\ allFailed = TRUE

MaxErrDispatch == 3  \* thunk actions dispatched to the supervisor
ErrIds == 1..MaxErrDispatch
NoErrInst == [pc |-> "none", result |-> [ok |-> TRUE, error |-> ""],
              threw |-> FALSE, peers |-> {}, late |-> FALSE]

\* The thunk is registered, its supervisor waits; nothing is dispatched.
ErrIdle ==
  /\ einst = [i \in ErrIds |-> NoErrInst]
  /\ esup = "alive"
  /\ errActs = <<>>
  /\ nErrDisp = 0

\* The store's scope, the scopes of the tasks that run A.register and
\* B.register, the scopes of the handlers they spawn, and code outside.
Scopes == {"store", "regA", "regB", "hA", "hB", "outside"}
Resources == {"storeRes", "thunkRes"}
NoRes == [pc |-> "none", starts |-> 0, cleanups |-> 0]
NoRead == [from |-> "", res |-> "", up |-> FALSE, get |-> "", expect |-> ""]

\* createStore and createThunks have returned; nothing is managed or run.
ManageIdle ==
  /\ mres = [r \in Resources |-> NoRes]
  /\ mtasks = {}
  /\ mctx = [sc \in Scopes |-> {}]
  /\ malive = TRUE
  /\ mread = NoRead
\* A payload that is not given (`undefined`).
NoPayload == [tag |-> "undefined", n |-> 0, members |-> <<>>]

\* createKey has not been called.
KeyIdle ==
  /\ kname = <<>>
  /\ kp1 = NoPayload
  /\ kp2 = NoPayload
  /\ kkeys = <<>>
\* The names thunks are created with, and the result of no call at all.
ThunkNames == {"a", "b"}
NoCall == [op |-> 0, via |-> "none", name |-> "", times |-> 0, trace |-> <<>>,
           threw |-> FALSE]

\* createThunks() has returned and `use` has installed the pipeline; no
\* thunk is created yet.
ThunkIdle ==
  /\ tkind = "every"
  /\ tnext = TRUE
  /\ tcount = [n \in ThunkNames |-> 0]
  /\ treg = FALSE
  /\ tdyn = [n \in ThunkNames |-> <<>>]
  /\ tused = [n \in ThunkNames |-> ""]
  /\ tbusy = [n \in ThunkNames |-> FALSE]
  /\ tbus = 0
  /\ tinst = 0
  /\ tlast = NoCall
  /\ tops = 0
BatchIdle ==
  /\ bnotifying = FALSE
  /\ bstate = 0
  /\ bcalls = <<>>
  /\ bqueue = {}
  /\ blog = 0
  /\ bchan = 0
  /\ blisten = <<>>
VisorIdle ==
  /\ vdisp = 0
  /\ vtaken = 0
  /\ vrunning = 0
  /\ vhalted = 0
  /\ vlate = 0

IdleButCompose ==
  /\ TimerIdle /\ PollIdle /\ RegIdle /\ ReplayIdle /\ SuperIdle /\ ErrIdle
  /\ ManageIdle
  /\ VisorIdle
  /\ BatchIdle
  /\ ThunkIdle
  /\ KeyIdle
ExtIdle == ComposeIdle /\ IdleButCompose

Init ==
  /\ kind \in Kinds
  /\ sup = [pc |-> "unreg", cur |-> NoAction, lastTask |-> 0]
  /\ subs = [s \in {} |-> Subscription(Wild)]
  /\ obs = [pc |-> "unsub"]
  /\ observed = <<>>
  /\ inst = [i \in InstIds |-> [pc |-> "none", act |-> NoAction, call |-> 0]]
  /\ nInst = 0
  /\ nEmit = 0
  /\ nDisp = 0
  /\ calls = <<>>
  /\ state = initialState
  /\ committed = <<>>
  /\ listeners = {}
  /\ middleware = <<>>
  /\ chan = 0
  /\ superseded = {}
  /\ busySent = {}
  /\ idleSent = {}
  /\ nClient = 0
  /\ directSets = 0
  /\ ExtIdle


\* ---- the update pipeline (store.ts: update, createUpdater, compose) ----
Ctx(caller, ctxUpdater, patches) ==
  [caller |-> caller, updater |-> ctxUpdater, patches |-> patches,
   idx |-> 2, wait |-> FALSE, status |-> "run", skipped |-> FALSE,
   trace |-> <<pipeline[1]>>, seen |-> <<>>, notified |-> {}]

\* update(updater): builds the ctx and runs the pipeline up to the end of
\* updateMdw, which reads the snapshot, applies every mutator to a draft of
\* it and replaces the snapshot, all without suspending.
update(caller, ctxUpdater) ==
  LET r == produceWithPatches(getState, upds(ctxUpdater))
  IN /\ calls' = Append(calls, Ctx(caller, ctxUpdater, r.patches))
     /\ state' = r.nextState
     /\ committed' = Append(committed, Len(calls) + 1)

\* The caller of a returned update() call carries on.
Continue(c) ==
  LET i == calls[c].caller
  IN IF i = Client THEN inst
     ELSE [inst EXCEPT ![i].pc = IF @ = "post" THEN "done" ELSE "halted",
                       ![i].call = 0]

AtStage(c, name) ==
  /\ c \in 1..Len(calls)
  /\ CallReady(c)
  /\ pipeline[calls[c].idx] = name

\* compose's dispatch(i): the stage has run; `callsNext` says whether it
\* called next().  The stage after the last one is undefined, so the chain
\* unwinds and update() returns.  `seen` keeps the snapshot the stage (and
\* whoever it notified) could read while it ran.
Stage(c, name, callsNext, notified) ==
  LET finished == ~callsNext \/ calls[c].idx = Len(pipeline)
  IN /\ calls' = [calls EXCEPT ![c].trace = Append(@, name),
                               ![c].seen = Append(@, getState),
                               ![c].skipped = ~callsNext,
                               ![c].idx = @ + 1,
                               ![c].wait = FALSE,
                               ![c].notified = notified,
                               ![c].status = IF finished THEN "ret" ELSE "run"]
     /\ inst' = IF finished THEN Continue(c) ELSE inst

\* A middleware supplied to createStore: it may call next at once, return
\* without calling next, or suspend on something external first.
UserMdw(c, choice) ==
  /\ AtStage(c, "userMdw")
  /\ IF choice = "suspend"
     THEN calls' = [calls EXCEPT ![c].wait = TRUE] /\ inst' = inst
     ELSE Stage(c, "userMdw", choice = "next", calls[c].notified)
  /\ NoEmit
  /\ UNCHANGED <<ext, middleware, kind, sup, obs, observed, nInst, nDisp, state, committed,
                 listeners, chan, nClient, directSets>>

MdwResume(c) ==
  /\ Quiescent
  /\ c \in 1..Len(calls)
  /\ calls[c].status = "run"
  /\ calls[c].wait
  /\ Stage(c, "userMdw", TRUE, calls[c].notified)
  /\ NoEmit
  /\ UNCHANGED <<ext, middleware, kind, sup, obs, observed, nInst, nDisp, state, committed,
                 listeners, chan, nClient, directSets>>

logMdw(c) ==
  /\ AtStage(c, "logMdw")
  /\ Emit(Stamp(<<StoreType>>, nEmit))
  /\ Stage(c, "logMdw", TRUE, calls[c].notified)
  /\ UNCHANGED <<ext, middleware, kind, sup, obs, observed, nInst, nDisp, state, committed,
                 listeners, chan, nClient, directSets>>

notifyChannelMdw(c) ==
  /\ AtStage(c, "notifyChannelMdw")
  /\ chan' = chan + 1
  /\ Stage(c, "notifyChannelMdw", TRUE, calls[c].notified)
  /\ NoEmit
  /\ UNCHANGED <<ext, middleware, kind, sup, obs, observed, nInst, nDisp, state, committed,
                 listeners, nClient, directSets>>

notifyListenersMdw(c) ==
  /\ AtStage(c, "notifyListenersMdw")
  /\ Stage(c, "notifyListenersMdw", TRUE, listeners)
  /\ NoEmit
  /\ UNCHANGED <<ext, middleware, kind, sup, obs, observed, nInst, nDisp, state, committed,
                 listeners, chan, nClient, directSets>>


\* ---- the bus's clients ----
DispatchInputs ==
  {<<>>} \cup {<<t>> : t \in {ThunkType, OtherType}}
         \cup {<<t, u>> : t \in {ThunkType, OtherType}, u \in {ThunkType, OtherType}}

\* store.dispatch(action | action[]) called from outside the runtime.
dispatch(types) ==
  /\ Quiescent
  /\ nDisp + Len(types) <= MaxDispatch
  /\ nDisp' = nDisp + Len(types)
  /\ Emit(Stamp(types, nEmit))
  /\ UNCHANGED <<ext, middleware, kind, sup, obs, observed, inst, nInst, calls, state,
                 committed, listeners, chan, nClient, directSets>>

\* An independent task subscribes with useActions(pattern) and reads on.
ObsSubscribe(pattern) ==
  /\ Quiescent
  /\ obs.pc = "unsub"
  /\ obs' = [pc |-> "wait"]
  /\ subs' = [s \in DOMAIN subs \cup {"obs"} |->
                IF s = "obs" THEN Subscription(pattern) ELSE subs[s]]
  /\ UNCHANGED <<ext, middleware, kind, sup, observed, inst, nInst, nEmit, nDisp, calls, state,
                 committed, listeners, chan, superseded, busySent, idleSent,
                 nClient, directSets>>

ObsNext ==
  /\ ObsReady
  /\ observed' = Append(observed, Head(subs["obs"].queue))
  /\ subs' = [subs EXCEPT !["obs"].queue = Tail(@)]
  /\ UNCHANGED <<ext, middleware, kind, sup, obs, inst, nInst, nEmit, nDisp, calls, state,
                 committed, listeners, chan, superseded, busySent, idleSent,
                 nClient, directSets>>

\* ---- the supervisor (thunk.ts: register starts curVisor = tt(type, onApi)) ----
register ==
  /\ Quiescent
  /\ sup.pc = "unreg"
  /\ sup' = [sup EXCEPT !.pc = "wait"]
  /\ subs' = [s \in DOMAIN subs \cup {"sup"} |->
                IF s = "sup" THEN Subscription(StrPattern(ThunkType))
                ELSE subs[s]]
  /\ UNCHANGED <<ext, middleware, kind, obs, observed, inst, nInst, nEmit, nDisp, calls, state,
                 committed, listeners, chan, superseded, busySent, idleSent,
                 nClient, directSets>>

\* spawn(() => op(action)) / call(() => op(action)): a new handler instance.
NewInstance(action) ==
  /\ nInst' = nInst + 1
  /\ inst' = [inst EXCEPT ![nInst + 1] =
                [pc |-> "start", act |-> action, call |-> 0]]

\* each(fd) / each.next(): the next buffered action is handed to the loop.
eachNext ==
  /\ kind \in {"every", "latest"}
  /\ sup.pc = "wait"
  /\ Subscribed("sup")
  /\ subs["sup"].queue # <<>>
  /\ sup' = [sup EXCEPT !.pc = "got", !.cur = Head(subs["sup"].queue)]
  /\ subs' = [subs EXCEPT !["sup"].queue = Tail(@)]
  /\ UNCHANGED <<ext, middleware, kind, obs, observed, inst, nInst, nEmit, nDisp, calls, state,
                 committed, listeners, chan, superseded, busySent, idleSent,
                 nClient, directSets>>

\* A takeEvery that asks for the next action through a new subscription,
\* losing what the old one had buffered.
takeEveryResubscribing ==
  /\ kind = "every"
  /\ sup.pc = "got"
  /\ NewInstance(sup.cur)
  /\ sup' = [sup EXCEPT !.pc = "wait", !.cur = NoAction, !.lastTask = nInst + 1]
  /\ subs' = [subs EXCEPT !["sup"].queue = <<>>]
  /\ UNCHANGED <<ext, middleware, kind, obs, observed, nDisp, calls, state, committed,
                 listeners, chan, nClient, directSets, nEmit, superseded,
                 busySent, idleSent>>

\* takeEvery's loop body: spawn, then ask for the next action.
takeEvery ==
  /\ kind = "every"
  /\ sup.pc = "got"
  /\ NewInstance(sup.cur)
  /\ sup' = [sup EXCEPT !.pc = "wait", !.cur = NoAction, !.lastTask = nInst + 1]
  /\ NoEmit
  /\ UNCHANGED <<ext, middleware, kind, obs, observed, nDisp, calls, state, committed,
                 listeners, chan, nClient, directSets>>

\* task.halt(): a task that has not started yet is simply dropped; any other
\* task abandons what it was suspended on and enters its finally block.
halt(i) ==
  /\ inst' = [inst EXCEPT ![i].pc = IF @ = "start" THEN "halted" ELSE "cleanup0",
                          ![i].call = 0]
  /\ calls' = IF inst[i].call = 0 THEN calls
              ELSE [calls EXCEPT ![inst[i].call].status = "aborted"]

\* takeLatest's loop body, first half: halt the previous task if there is one.
takeLatestHalt ==
  /\ kind = "latest"
  /\ sup.pc = "got"
  /\ NeedsHalt(sup.lastTask)
  /\ inst[sup.lastTask].pc \notin Terminal
  /\ halt(sup.lastTask)
  /\ sup' = [sup EXCEPT !.pc = "halting"]
  /\ NoEmit
  /\ UNCHANGED <<ext, middleware, kind, obs, observed, nInst, nDisp, state, committed,
                 listeners, chan, nClient, directSets>>

\* takeLatest's loop body, second half: once halt() has returned (or there
\* was nothing left to halt), spawn and ask for the next action.
takeLatestSpawn ==
  /\ kind = "latest"
  /\ IF sup.pc = "halting" THEN HaltDone(sup.lastTask)
     ELSE /\ sup.pc = "got"
          /\ IF NeedsHalt(sup.lastTask)
             THEN inst[sup.lastTask].pc \in Terminal
             ELSE TRUE
  /\ NewInstance(sup.cur)
  /\ sup' = [sup EXCEPT !.pc = "wait", !.cur = NoAction, !.lastTask = nInst + 1]
  /\ NoEmit
  /\ UNCHANGED <<ext, middleware, kind, obs, observed, nDisp, calls, state, committed,
                 listeners, chan, nClient, directSets>>

\* takeLeading: take(pattern) has returned an action; the handler is called
\* inline.  The subscription behind that take() stays in the scope and keeps
\* buffering, but nothing reads it again.
takeLeadingCall ==
  /\ kind = "leading"
  /\ sup.pc = "wait"
  /\ Subscribed("sup")
  /\ subs["sup"].queue # <<>>
  /\ NewInstance(Head(subs["sup"].queue))
  /\ sup' = [sup EXCEPT !.pc = "calling", !.cur = Head(subs["sup"].queue),
                        !.lastTask = nInst + 1]
  /\ subs' = [subs EXCEPT !["sup"].queue = Tail(@)]
  /\ UNCHANGED <<ext, middleware, kind, obs, observed, nEmit, nDisp, calls, state, committed,
                 listeners, chan, superseded, busySent, idleSent, nClient,
                 directSets>>

\* A take that keeps reading the subscription it already had.
takeSameSubscription(ss) == ss

\* take(pattern): a fresh subscription, hence a fresh, empty queue.
take(ss) ==
  [ss EXCEPT !["sup"] = Subscription(StrPattern(ThunkType))]

\* takeLeading: the call has returned; loop and take again.
takeLeadingLoop ==
  /\ kind = "leading"
  /\ sup.pc = "calling"
  /\ inst[sup.lastTask].pc \in Terminal
  /\ sup' = [sup EXCEPT !.pc = "wait", !.cur = NoAction]
  /\ subs' = take(subs)
  /\ UNCHANGED <<ext, middleware, kind, obs, observed, inst, nInst, nEmit, nDisp, calls, state,
                 committed, listeners, chan, superseded, busySent, idleSent,
                 nClient, directSets>>

\* ---- a handler instance (thunk.ts: onApi runs the thunk's middleware) ----
\* The handler modelled here may put actions of its own before it first
\* suspends, awaits something external, then updates the store; its finally
\* block updates the store as well.
PutInputs == {<<>>, <<ThunkType>>}

handlerStart(i, types) ==
  /\ inst[i].pc = "start"
  /\ nDisp + Len(types) <= MaxDispatch
  /\ nDisp' = nDisp + Len(types)
  /\ Emit(Stamp(types, nEmit))
  /\ inst' = [inst EXCEPT ![i].pc = "await"]
  /\ UNCHANGED <<ext, middleware, kind, sup, obs, observed, nInst, calls, state, committed,
                 listeners, chan, nClient, directSets>>

\* The awaited completion arrives; the code after the suspension point runs.
handlerResume(i) ==
  /\ Quiescent
  /\ inst[i].pc = "await"
  /\ update(i, Single(Mutator(Len(calls) + 1, 1)))
  /\ inst' = [inst EXCEPT ![i].pc = "post", ![i].call = Len(calls) + 1]
  /\ NoEmit
  /\ UNCHANGED <<ext, middleware, kind, sup, obs, observed, nInst, nDisp, listeners, chan,
                 nClient, directSets>>

\* The finally block of a halted instance.
handlerFinally(i) ==
  /\ inst[i].pc = "cleanup0"
  /\ update(i, Single(Mutator(Len(calls) + 1, 1)))
  /\ inst' = [inst EXCEPT ![i].pc = "cleanup", ![i].call = Len(calls) + 1]
  /\ NoEmit
  /\ UNCHANGED <<ext, middleware, kind, sup, obs, observed, nInst, nDisp, listeners, chan,
                 nClient, directSets>>

\* ---- the store's clients ----
\* store.run(() => updateStore([m1, m2]))
clientUpdate ==
  /\ Quiescent
  /\ nClient < MaxClientUpdates
  /\ nClient' = nClient + 1
  /\ update(Client, Array(<<Mutator(Len(calls) + 1, 1),
                            Mutator(Len(calls) + 1, 2)>>))
  /\ NoEmit
  /\ UNCHANGED <<ext, middleware, kind, sup, obs, observed, inst, nInst, nDisp, listeners,
                 chan, directSets>>

\* A reset that assigns the snapshot itself instead of going through update.
resetDirect ==
  /\ Quiescent
  /\ nClient < MaxClientUpdates
  /\ nClient' = nClient + 1
  /\ state' = initialState
  /\ NoEmit
  /\ UNCHANGED <<ext, middleware, kind, sup, obs, observed, inst, nInst, nDisp, listeners,
                 chan, directSets, calls, committed>>

\* store.run(() => store.reset())
reset ==
  /\ Quiescent
  /\ nClient < MaxClientUpdates
  /\ nClient' = nClient + 1
  /\ update(Client, Single(ResetMutator(Len(calls) + 1)))
  /\ NoEmit
  /\ UNCHANGED <<ext, middleware, kind, sup, obs, observed, inst, nInst, nDisp, listeners,
                 chan, directSets>>

subscribe(fn) ==
  /\ Quiescent
  /\ fn \notin listeners
  /\ listeners' = listeners \cup {fn}
  /\ NoEmit
  /\ UNCHANGED <<ext, middleware, kind, sup, obs, observed, inst, nInst, nDisp, calls, state,
                 committed, chan, nClient, directSets>>

unsubscribe(fn) ==
  /\ Quiescent
  /\ fn \in listeners
  /\ listeners' = listeners \ {fn}
  /\ NoEmit
  /\ UNCHANGED <<ext, middleware, kind, sup, obs, observed, inst, nInst, nDisp, calls, state,
                 committed, chan, nClient, directSets>>

\* ---- the bus and the supervisors, on a store with the default (empty)
\* middleware option ----
Next ==
  \/ \E types \in DispatchInputs : dispatch(types)
  \/ \E pattern \in Patterns : ObsSubscribe(pattern)
  \/ ObsNext
  \/ register
  \/ eachNext
  \/ takeEvery
  \/ takeLatestHalt
  \/ takeLatestSpawn
  \/ takeLeadingCall
  \/ takeLeadingLoop
  \/ \E i \in InstIds : \E types \in PutInputs : handlerStart(i, types)
  \/ \E i \in InstIds : handlerResume(i)
  \/ \E i \in InstIds : handlerFinally(i)
  \/ \E c \in 1..Len(calls) : logMdw(c)
  \/ \E c \in 1..Len(calls) : notifyChannelMdw(c)
  \/ \E c \in 1..Len(calls) : notifyListenersMdw(c)

Spec == Init /\ [][Next]_vars

\* ---- the update pipeline of a store created with one middleware, driven
\* by client tasks ----
StoreInit ==
  /\ kind = "every"
  /\ sup = [pc |-> "unreg", cur |-> NoAction, lastTask |-> 0]
  /\ subs = [s \in {} |-> Subscription(Wild)]
  /\ obs = [pc |-> "unsub"]
  /\ observed = <<>>
  /\ inst = [i \in InstIds |-> [pc |-> "none", act |-> NoAction, call |-> 0]]
  /\ nInst = 0
  /\ nEmit = 0
  /\ nDisp = 0
  /\ calls = <<>>
  /\ state = initialState
  /\ committed = <<>>
  /\ listeners = {}
  /\ middleware = <<"userMdw">>
  /\ chan = 0
  /\ superseded = {}
  /\ busySent = {}
  /\ idleSent = {}
  /\ nClient = 0
  /\ directSets = 0
  /\ ExtIdle

StoreNext ==
  \/ clientUpdate
  \/ reset
  \/ \E fn \in Listeners : subscribe(fn)
  \/ \E fn \in Listeners : unsubscribe(fn)
  \/ \E c \in 1..Len(calls) : \E choice \in {"next", "skip", "suspend"} : UserMdw(c, choice)
  \/ \E c \in 1..Len(calls) : MdwResume(c)
  \/ \E c \in 1..Len(calls) : logMdw(c)
  \/ \E c \in 1..Len(calls) : notifyChannelMdw(c)
  \/ \E c \in 1..Len(calls) : notifyListenersMdw(c)

StoreSpec == StoreInit /\ [][StoreNext]_vars


\* ---- the store object of the schema-based createStore, which lists
\* setState among its members ----
MaxSetState == 1
SetStateInputs == {initialState, <<<<0, 0>>>>}

setState(newState) ==
  /\ Quiescent
  /\ directSets < MaxSetState
  /\ directSets' = directSets + 1
  /\ state' = newState
  /\ NoEmit
  /\ UNCHANGED <<ext, middleware, kind, sup, obs, observed, inst, nInst, nDisp,
                 calls, committed, listeners, chan, nClient>>

\* A client using the members of the store object one after another, on a
\* store created without middleware.
PublicInit ==
  /\ kind = "every"
  /\ sup = [pc |-> "unreg", cur |-> NoAction, lastTask |-> 0]
  /\ subs = [s \in {} |-> Subscription(Wild)]
  /\ obs = [pc |-> "unsub"]
  /\ observed = <<>>
  /\ inst = [i \in InstIds |-> [pc |-> "none", act |-> NoAction, call |-> 0]]
  /\ nInst = 0
  /\ nEmit = 0
  /\ nDisp = 0
  /\ calls = <<>>
  /\ state = initialState
  /\ committed = <<>>
  /\ listeners = {}
  /\ middleware = <<>>
  /\ chan = 0
  /\ superseded = {}
  /\ busySent = {}
  /\ idleSent = {}
  /\ nClient = 0
  /\ directSets = 0
  /\ ExtIdle

PublicNext ==
  \/ \E newState \in SetStateInputs : setState(newState)
  \/ \E types \in DispatchInputs : dispatch(types)
  \/ \E fn \in Listeners : subscribe(fn)
  \/ \E fn \in Listeners : unsubscribe(fn)
  \/ clientUpdate
  \/ reset
  \/ \E c \in 1..Len(calls) : logMdw(c)
  \/ \E c \in 1..Len(calls) : notifyChannelMdw(c)
  \/ \E c \in 1..Len(calls) : notifyListenersMdw(c)

PublicSpec == PublicInit /\ [][PublicNext]_vars

\* The store, the bus and the thunk untouched.
CoreIdle ==
  /\ kind = "every"
  /\ sup = [pc |-> "unreg", cur |-> NoAction, lastTask |-> 0]
  /\ subs = [s \in {} |-> Subscription(Wild)]
  /\ obs = [pc |-> "unsub"]
  /\ observed = <<>>
  /\ inst = [i \in InstIds |-> [pc |-> "none", act |-> NoAction, call |-> 0]]
  /\ nInst = 0
  /\ nEmit = 0
  /\ nDisp = 0
  /\ calls = <<>>
  /\ state = initialState
  /\ committed = <<>>
  /\ listeners = {}
  /\ middleware = <<>>
  /\ chan = 0
  /\ superseded = {}
  /\ busySent = {}
  /\ idleSent = {}
  /\ nClient = 0
  /\ directSets = 0

\* ---- compose.ts: compose(middleware) and the composeFn it returns ----
\* A stage is described by the number of times its body runs `yield* next()`;
\* stage ids are array positions, the tail middleware has id Len(stack).
MaxStages == 3
NextCalls == {0, 1, 2}
Undefined == [id |-> -1, calls |-> 0]

RECURSIVE SeqsUpTo(_, _)
SeqsUpTo(S, n) ==
  IF n = 0 THEN {<<>>}
  ELSE LET shorter == SeqsUpTo(S, n - 1)
       IN shorter \cup {Append(q, x) : q \in shorter, x \in S}

\* A composeFn that reads the array from its end.
fnAtReversed(i) ==
  IF i = Len(stack)
  THEN (IF mdw = <<>> THEN Undefined ELSE [id |-> i, calls |-> mdw[1]])
  ELSE IF i < Len(stack)
       THEN [id |-> Len(stack) - 1 - i, calls |-> stack[Len(stack) - i]]
       ELSE Undefined

\* `let fn = middleware[i]; if (i === middleware.length) fn = mdw`
fnAt(i) ==
  IF i = Len(stack)
  THEN (IF mdw = <<>> THEN Undefined ELSE [id |-> i, calls |-> mdw[1]])
  ELSE IF i < Len(stack)
       THEN [id |-> i, calls |-> stack[i + 1]]
       ELSE Undefined

\* A dispatch that accepts any position again.
NeverMultiple(i) == FALSE

\* `if (i <= index) throw new Error("next() called multiple times")`
MultipleCalls(i) == i <= index

\* A dispatch that moves on to the following stage when fn has returned
\* without having called next.
afterFnAdvancing(f) == IF f.called = 0 THEN "advance" ELSE "return"

\* What dispatch(i) does once `yield* fn(context, nxt)` is over: it returns.
afterFn(f) == "return"

\* dispatch(i), called with `caller` frames below it; `who` is the stage
\* that made the call (-1 for composeFn itself).
Dispatch(i, caller, who) ==
  IF MultipleCalls(i)
  THEN /\ frames' = <<>>
       /\ log' = Append(log, <<"throw", who>>)
       /\ cstat' = "thrown"
       /\ index' = index
  ELSE /\ index' = i
       /\ IF fnAt(i) = Undefined
          THEN /\ frames' = caller
               /\ log' = log
               /\ cstat' = IF caller = <<>> THEN "done" ELSE "run"
          ELSE /\ frames' = Append(caller, [id |-> fnAt(i).id, i |-> i,
                                           calls |-> fnAt(i).calls,
                                           called |-> 0])
               /\ log' = Append(log, <<"before", fnAt(i).id>>)
               /\ cstat' = "run"

\* `yield* dispatch(0)`
composeFn ==
  /\ cstat = "idle"
  /\ Dispatch(0, <<>>, -1)
  /\ UNCHANGED <<exceptCompose, stack, mdw>>

\* The innermost stage runs `yield* next()`.
next ==
  /\ cstat = "run"
  /\ frames # <<>>
  /\ LET f == frames[Len(frames)]
     IN /\ f.called < f.calls
        /\ Dispatch(f.i + 1,
                    [frames EXCEPT ![Len(frames)].called = @ + 1], f.id)
  /\ UNCHANGED <<exceptCompose, stack, mdw>>

\* The innermost stage runs the rest of its body and returns.
stageReturn ==
  /\ cstat = "run"
  /\ frames # <<>>
  /\ LET f == frames[Len(frames)]
         below == SubSeq(frames, 1, Len(frames) - 1)
     IN /\ f.called = f.calls
        /\ IF afterFn(f) = "return"
           THEN /\ frames' = below
                /\ log' = Append(log, <<"after", f.id>>)
                /\ cstat' = IF below = <<>> THEN "done" ELSE "run"
                /\ index' = index
           ELSE /\ index' = f.i + 1
                /\ IF fnAt(f.i + 1) = Undefined
                   THEN /\ frames' = below
                        /\ log' = Append(log, <<"after", f.id>>)
                        /\ cstat' = IF below = <<>> THEN "done" ELSE "run"
                   ELSE /\ frames' = Append(below,
                               [id |-> fnAt(f.i + 1).id, i |-> f.i + 1,
                                calls |-> fnAt(f.i + 1).calls, called |-> 0])
                        /\ log' = log \o <<<<"after", f.id>>,
                                           <<"before", fnAt(f.i + 1).id>>>>
                        /\ cstat' = "run"
  /\ UNCHANGED <<exceptCompose, stack, mdw>>

ComposeInit ==
  /\ CoreIdle
  /\ IdleButCompose
  /\ stack \in SeqsUpTo(NextCalls, MaxStages)
  /\ mdw \in {<<>>} \cup {<<k>> : k \in NextCalls}
  /\ index = -1
  /\ frames = <<>>
  /\ log = <<>>
  /\ cstat = "idle"

ComposeNext == composeFn \/ next \/ stageReturn

ComposeSpec == ComposeInit /\ [][ComposeNext]_vars

\* ---- query/util.ts: timer(timer), the throttling supervisor ----
Window == 2          \* the `timer` argument, in ticks
MaxTime == 5         \* the clock stops here
MaxBursts == 3       \* dispatch calls made in one behaviour
TimerType == "timed"
ClearType == "clear-timers"

\* The action of the supervised thunk for one key, as create() builds it.
Fetch(k) == [type |-> TimerType, payload |-> [key |-> k]]

\* ClearTimerPayload: a string, or an action that carries a key.
StringId(v) == [tag |-> "string", value |-> v]
ActionId(a) == [tag |-> "action", value |-> a]
OneId(id) == [isArray |-> FALSE, items |-> <<id>>]
ManyIds(ids) == [isArray |-> TRUE, items |-> ids]
clearTimers(payload) == [type |-> ClearType, payload |-> payload]

ClearPayloads ==
  {OneId(StringId("*")), ManyIds(<<StringId("k2"), ActionId(Fetch("k1"))>>)}
    \cup {OneId(StringId(k)) : k \in Keys}
    \cup {OneId(ActionId(Fetch(k))) : k \in Keys}

TimerBursts ==
  {<<Fetch(k)>> : k \in Keys}
    \cup {<<Fetch(k), Fetch(j)>> : k \in Keys, j \in Keys}
    \cup {<<clearTimers(p)>> : p \in ClearPayloads}

getIdFromAction(action) == action.payload.key

\* activate's matchFn for the task of the action whose id is idA.
matchFn(idA, act) ==
  IF act.type # ClearType THEN FALSE
  ELSE LET ids == IF act.payload.isArray THEN act.payload.items
                  ELSE <<act.payload.items[1]>>
       IN \E j \in 1..Len(ids) :
            IF ids[j].tag = "string"
            THEN ids[j].value = "*" \/ idA = ids[j].value
            ELSE idA = getIdFromAction(ids[j].value)

\* A clear-timers action that is "*" or names key k, in any of the forms.
Names(act, k) ==
  /\ act.type = ClearType
  /\ \E j \in 1..Len(act.payload.items) :
       \/ act.payload.items[j] = StringId("*")
       \/ act.payload.items[j] = StringId(k)
       \/ act.payload.items[j] = ActionId(Fetch(k))

IsTimed(a) == a.type = TimerType

\* A sleep that lasts two windows.
sleepTwice(t) == t + 2 * Window

\* sleep(timer) started at time t ends at:
sleepUntil(t) == t + Window

Expired(k) == tact[k].pc = "race" /\ now >= tact[k].deadline
RaceOver(k) == Expired(k) \/ tact[k].pc = "cleared"

\* No continuation of the timer supervisor or of its tasks is ready.
TimerQuiescent == tq = <<>> /\ \A k \in Keys : ~RaceOver(k)

\* An activate that races take(matchFn) against its whole body.
listensFromStart(pc) == pc \in {"op", "race"}

\* activate subscribes with take(matchFn) in the race, which it reaches when
\* `yield* call(() => op(action))` has returned.
listens(pc) == pc = "race"

\* store.dispatch(acts) / put(acts): every action is sent, one after the
\* other, before any task that was waiting for one of them runs again.
timerDispatch(acts) ==
  /\ TimerQuiescent
  /\ nBurst < MaxBursts
  /\ nBurst' = nBurst + 1
  /\ tq' = tq \o SelectSeq(acts, IsTimed)
  /\ tact' = [k \in Keys |->
                IF listens(tact[k].pc) /\ \E j \in 1..Len(acts) : matchFn(k, acts[j])
                THEN [tact[k] EXCEPT !.pc = "cleared"]
                ELSE tact[k]]
  /\ owed' = owed \cup {k \in Keys \ map : \E j \in 1..Len(acts) : acts[j] = Fetch(k)}
  /\ clearedIn' = [k \in Keys |->
                     IF k \in map /\ \E j \in 1..Len(acts) : Names(acts[j], k)
                     THEN tact[k].pc
                     ELSE clearedIn[k]]
  /\ UNCHANGED <<exceptTimer, now, map, runs, invokedAt, returnedAt, evictedBy,
                 ignored>>

\* A supervisor that starts a task whatever the map holds.
NeverThrottled(key) == FALSE

\* `if (!map[key])` fails for:
Throttled(key) == key \in map

\* onTimer's loop: take has an action; spawn activate for it unless its key
\* is in the map; then take again, through a new subscription.
onTimer ==
  /\ tq # <<>>
  /\ LET key == Head(tq).payload.key
     IN IF ~Throttled(key)
        THEN /\ map' = map \cup {key}
             /\ tact' = [tact EXCEPT ![key] = [pc |-> "op", deadline |-> 0]]
             /\ runs' = [runs EXCEPT ![key] = @ + 1]
             /\ invokedAt' = [invokedAt EXCEPT ![key] = now]
             /\ returnedAt' = [returnedAt EXCEPT ![key] = -1]
             /\ evictedBy' = [evictedBy EXCEPT ![key] = "none"]
             /\ clearedIn' = [clearedIn EXCEPT ![key] = "none"]
             /\ owed' = owed \ {key}
             /\ ignored' = ignored
        ELSE /\ ignored' = [ignored EXCEPT ![key] = @ + 1]
             /\ UNCHANGED <<map, tact, runs, invokedAt, returnedAt, evictedBy,
                            clearedIn, owed>>
  /\ tq' = <<>>
  /\ UNCHANGED <<exceptTimer, now, nBurst>>

\* activate: `yield* call(() => op(action))` returns; the race of the sleep
\* against take(matchFn) begins.
opReturn(k) ==
  /\ TimerQuiescent
  /\ tact[k].pc = "op"
  /\ tact' = [tact EXCEPT ![k] = [pc |-> "race", deadline |-> sleepUntil(now)]]
  /\ returnedAt' = [returnedAt EXCEPT ![k] = now]
  /\ UNCHANGED <<exceptTimer, now, map, tq, nBurst, runs, invokedAt, evictedBy,
                 owed, ignored, clearedIn>>

\* activate: the race is over; `delete map[action.payload.key]`.
activateEnd(k) ==
  /\ RaceOver(k)
  /\ map' = map \ {k}
  /\ tact' = [tact EXCEPT ![k] = NoTask]
  /\ evictedBy' = [evictedBy EXCEPT ![k] =
                     IF tact[k].pc = "cleared" THEN "clear" ELSE "sleep"]
  /\ UNCHANGED <<exceptTimer, now, tq, nBurst, runs, invokedAt, returnedAt,
                 owed, ignored, clearedIn>>

\* Time passes while nothing is ready to run.
Tick ==
  /\ TimerQuiescent
  /\ now < MaxTime
  /\ now' = now + 1
  /\ UNCHANGED <<exceptTimer, map, tact, tq, nBurst, runs, invokedAt,
                 returnedAt, evictedBy, owed, ignored, clearedIn>>

TimerInit == CoreIdle /\ ExtIdle

TimerNext ==
  \/ \E acts \in TimerBursts : timerDispatch(acts)
  \/ onTimer
  \/ \E k \in Keys : opReturn(k)
  \/ \E k \in Keys : activateEnd(k)
  \/ Tick

TimerSpec == TimerInit /\ [][TimerNext]_vars

\* ---- query/util.ts: poll(parentTimer, cancelType), the polling supervisor ----
parentTimer == 2     \* poll's `parentTimer` argument, in ticks
MaxPollTime == 4     \* the poller's clock stops here
MaxPollBursts == 3   \* dispatch calls made in one behaviour

\* An action of the polled type; timer 0 stands for a payload without one.
Poll(t) == [type |-> PollType, payload |-> [timer |-> t]]

\* The action creator of a thunk or endpoint, called with `options`:
\* `action({ name, key, options })`.
actionFn(options) ==
  [type |-> PollType,
   payload |-> [name |-> "polled", key |-> "k", options |-> options]]

PollBursts ==
  {<<Poll(t)>> : t \in {0, 1}}
    \cup {<<Stop>>, <<Poll(0), Poll(0)>>, <<Poll(0), Stop>>, <<Stop, Poll(1)>>}
    \cup {<<actionFn([timer |-> 1])>>}

IsPolled(a) == a.type = PollType

\* `const cancel = cancelType || actionType`
cancel(given, actionType) == IF given # "" THEN given ELSE actionType

\* `const timer = action.payload?.timer || parentTimer`
timerOf(action) ==
  IF "timer" \in DOMAIN action.payload /\ action.payload.timer # 0
  THEN action.payload.timer
  ELSE parentTimer

\* A poller whose outer take hears actions sent during the race as well.
hearsAlways(pc, acts) == SelectSeq(acts, IsPolled)

\* What reaches the poller's outer take: it is subscribed only while the
\* poller is suspended in `take(actionType)`.
hears(pc, acts) == IF pc = "take" THEN SelectSeq(acts, IsPolled) ELSE <<>>

\* A race that lets the losing fire finish the invocation it is in.
letFinish(f) == [pc |-> "none", done |-> IF f.pc = "op" THEN 1 ELSE 0]

\* race halts the loser: fire stops where it is suspended, in `op(action)`
\* or in `sleep(timer)`; an invocation in flight does not return.
raceHalt(f) == [pc |-> "none", done |-> 0]

SleepOver == pfire.pc = "sleep" /\ pnow >= pfire.deadline

\* No continuation of the poller or of fire is ready.
PollQuiescent == pq = <<>> /\ ~pwon /\ ~SleepOver

\* store.dispatch(acts) / put(acts) on the poller's bus.
pollDispatch(acts) ==
  /\ PollQuiescent
  /\ pBurst < MaxPollBursts
  /\ pBurst' = pBurst + 1
  /\ nTrig' = IF \E j \in 1..Len(acts) : IsPolled(acts[j])
              THEN nTrig + 1 ELSE nTrig
  /\ pq' = hears(ppc, acts)
  /\ pwon' = (ppc = "race" /\ \E j \in 1..Len(acts) :
                                 acts[j].type = cancel(cancelType, PollType))
  /\ mustStop' =
       \/ mustStop
       \/ /\ ppc = "race"
          /\ \E j \in 1..Len(acts) :
               \/ acts[j].type = PollType
               \/ cancelType # "" /\ acts[j].type = cancelType
  /\ UNCHANGED <<exceptPoll, pact, cancelType, ppc, pfire, ptimer, pnow, invoked,
                 returned, haltedOps, pret>>

\* poller's loop: take(actionType) has an action; the race begins and fire
\* makes its first invocation.
poller ==
  /\ ppc = "take"
  /\ pq # <<>>
  /\ ptimer' = timerOf(Head(pq))
  /\ pact' = Head(pq)
  /\ ppc' = "race"
  /\ pfire' = [pc |-> "op", deadline |-> 0]
  /\ invoked' = invoked + 1
  /\ pq' = <<>>
  /\ UNCHANGED <<exceptPoll, cancelType, pwon, pnow, pBurst, nTrig, returned,
                 haltedOps, pret, mustStop>>

\* fire: `yield* op(action)` returns; `yield* sleep(timer)` begins.
opDone ==
  /\ PollQuiescent
  /\ pfire.pc = "op"
  /\ pfire' = [pc |-> "sleep", deadline |-> pnow + ptimer]
  /\ returned' = returned + 1
  /\ pret' = pnow
  /\ UNCHANGED <<exceptPoll, pact, cancelType, ppc, pq, pwon, ptimer, pnow, pBurst,
                 nTrig, invoked, haltedOps, mustStop>>

\* fire: the sleep is over; the loop invokes the handler again.
fire ==
  /\ SleepOver
  /\ ~pwon
  /\ pfire' = [pc |-> "op", deadline |-> 0]
  /\ invoked' = invoked + 1
  /\ UNCHANGED <<exceptPoll, pact, cancelType, ppc, pq, pwon, ptimer, pnow, pBurst,
                 nTrig, returned, haltedOps, pret, mustStop>>

\* race: take(cancel) has won; fire is halted and the poller's loop goes
\* back to take(actionType), through a new subscription.
raceOver ==
  /\ ppc = "race"
  /\ pwon
  /\ pfire' = [pc |-> raceHalt(pfire).pc, deadline |-> 0]
  /\ returned' = returned + raceHalt(pfire).done
  /\ haltedOps' = IF pfire.pc = "op" /\ raceHalt(pfire).done = 0
                  THEN haltedOps + 1 ELSE haltedOps
  /\ ppc' = "take"
  /\ pwon' = FALSE
  /\ mustStop' = FALSE
  /\ UNCHANGED <<exceptPoll, pact, cancelType, pq, ptimer, pnow, pBurst, nTrig,
                 invoked, pret>>

\* Time passes while nothing is ready to run.
pollTick ==
  /\ PollQuiescent
  /\ pnow < MaxPollTime
  /\ pnow' = pnow + 1
  /\ UNCHANGED <<exceptPoll, pact, cancelType, ppc, pq, pwon, pfire, ptimer, pBurst,
                 nTrig, invoked, returned, haltedOps, pret, mustStop>>

\* poll(parentTimer) and poll(parentTimer, StopType), just started.
PollInit ==
  /\ CoreIdle
  /\ ComposeIdle
  /\ TimerIdle
  /\ RegIdle
  /\ ReplayIdle
  /\ SuperIdle
  /\ ErrIdle
  /\ ManageIdle
  /\ VisorIdle
  /\ BatchIdle
  /\ ThunkIdle
  /\ KeyIdle
  /\ cancelType \in {"", StopType}
  /\ ppc = "take"
  /\ pq = <<>>
  /\ pwon = FALSE
  /\ pfire = NoFire
  /\ ptimer = 0
  /\ pnow = 0
  /\ pBurst = 0
  /\ nTrig = 0
  /\ invoked = 0
  /\ returned = 0
  /\ haltedOps = 0
  /\ pret = 0
  /\ mustStop = FALSE
  /\ pact = Stop

PollNext ==
  \/ \E acts \in PollBursts : pollDispatch(acts)
  \/ poller
  \/ opDone
  \/ fire
  \/ raceOver
  \/ pollTick

PollSpec == PollInit /\ [][PollNext]_vars

\* ---- fx/replay-signal.ts: createReplaySignal, createDurableQueue ----
\* stream().next's `iter.next().value`: the next item of the array, or
\* undefined (has = FALSE) at its end, which finishes the iterator for good.
iterNext(iter, items) ==
  IF ~iter.done /\ iter.index < Len(items)
  THEN [has |-> TRUE, value |-> items[iter.index + 1],
        iter |-> [iter EXCEPT !.index = @ + 1]]
  ELSE [has |-> FALSE, value |-> 0, iter |-> [iter EXCEPT !.done = TRUE]]

\* enqueue(item), after `items.push(item)`: every subscription with a waiting
\* resolve is resolved with the item; resolving removes the resolve from
\* `notify` (the action's cleanup).
enqueue(ss, item) ==
  [r \in DOMAIN ss |->
     IF ss[r].notify
     THEN [ss[r] EXCEPT !.notify = FALSE, !.inbox = item, !.pc = "resolved"]
     ELSE ss[r]]

RECURSIVE enqueueAll(_, _)
enqueueAll(ss, its) ==
  IF its = <<>> THEN ss
  ELSE enqueueAll(enqueue(ss, Head(its)), Tail(its))

\* ---- query/thunk.ts: create, register ----
RegReady(r) == reg[r].pc \in {"ready", "resolved"}

\* No register() call has a continuation that is ready to run.
RegQuiescent == \A r \in Regs : ~RegReady(r)

\* create(name, ...), n times in a row: `watch.send(() => supervise(curVisor))`
\* each time.  One call made from plain code lets the waiting register()
\* loops run before the next one; calls made from inside a running operation
\* are all made before any of them runs again.
create(n) ==
  /\ RegQuiescent
  /\ Len(watch) + n <= MaxThunks
  /\ LET new == [j \in 1..n |-> Len(watch) + j]
     IN /\ watch' = watch \o new
        /\ reg' = enqueueAll(reg, new)
  /\ UNCHANGED <<exceptReg, storeRegistration, visors, ran>>

\* `if (parentStoreId && storeRegistration.has(parentStoreId))`
AlreadyRegistered(parentStoreId) ==
  parentStoreId # 0 /\ parentStoreId \in storeRegistration

\* register(), run in the scope of the store whose id is parentStoreId, up
\* to the first `each(watch)`.
registerIn(r, parentStoreId) ==
  /\ RegQuiescent
  /\ reg[r].pc = "idle"
  /\ \A q \in Regs : q < r => reg[q].pc # "idle"
  /\ IF AlreadyRegistered(parentStoreId)
     THEN /\ reg' = [reg EXCEPT ![r].pc = "returned", ![r].store = parentStoreId]
          /\ UNCHANGED storeRegistration
     ELSE /\ storeRegistration' = storeRegistration \cup {parentStoreId}
          /\ reg' = [reg EXCEPT ![r].pc = "ready", ![r].store = parentStoreId]
  /\ UNCHANGED <<exceptReg, watch, visors, ran>>

\* `yield* scope.spawn(watched(scope))` for the thunk t taken from watch.
spawnVisor(r, t) ==
  visors' = [visors EXCEPT ![<<reg[r].store, t>>] = @ + 1]

\* register's loop asks the subscription for the next thunk: an item not
\* yet iterated is returned and its supervisor spawned; at the end of the
\* array the loop waits to be notified.
regNext(r) ==
  /\ reg[r].pc = "ready"
  /\ LET n == iterNext(reg[r].iter, watch)
     IN IF n.has
        THEN /\ reg' = [reg EXCEPT ![r].iter = n.iter,
                                   ![r].got = Append(@, n.value)]
             /\ spawnVisor(r, n.value)
        ELSE /\ reg' = [reg EXCEPT ![r].iter = n.iter, ![r].notify = TRUE,
                                   ![r].pc = "wait"]
             /\ UNCHANGED visors
  /\ UNCHANGED <<exceptReg, watch, storeRegistration, ran>>

\* register's loop is resumed with the item it was notified of.
regResume(r) ==
  /\ reg[r].pc = "resolved"
  /\ reg' = [reg EXCEPT ![r].pc = "ready", ![r].got = Append(@, reg[r].inbox)]
  /\ spawnVisor(r, reg[r].inbox)
  /\ UNCHANGED <<exceptReg, watch, storeRegistration, ran>>

\* store.dispatch of thunk t's action in store st: every supervisor of t
\* in that store runs the handler once.
regDispatch(st, t) ==
  /\ RegQuiescent
  /\ t \in 1..Len(watch)
  /\ ran' = visors[<<st, t>>]
  /\ UNCHANGED <<exceptReg, watch, storeRegistration, reg, visors>>

RegInit == CoreIdle /\ ExtIdle

RegNext ==
  \/ \E n \in {1, 2} : create(n)
  \/ \E r \in Regs, st \in StoreIds : registerIn(r, st)
  \/ \E r \in Regs : regNext(r)
  \/ \E r \in Regs : regResume(r)
  \/ \E st \in StoreIds, t \in Thunks : regDispatch(st, t)

RegSpec == RegInit /\ [][RegNext]_vars

\* ---- fx/replay-signal.ts: a replay signal and its subscribers ----
MaxSends == 3        \* values sent on the replay signal

SubReady(x) == rsubs[x].pc \in {"ready", "resolved"}

\* No subscriber has a continuation that is ready to run; a subscriber may
\* be suspended in the middle of processing a value.
ReplayQuiescent == \A x \in Subscribers : ~SubReady(x)

\* send(value), n times in a row with nothing running in between.
replaySend(n) ==
  /\ ReplayQuiescent
  /\ Len(ritems) + n <= MaxSends
  /\ LET new == [j \in 1..n |-> Len(ritems) + j]
     IN /\ ritems' = ritems \o new
        /\ rsubs' = enqueueAll(rsubs, new)
  /\ UNCHANGED exceptReplay

\* `yield* each(signal)`: the subscribe resource calls queue.stream().
replaySubscribe(x) ==
  /\ ReplayQuiescent
  /\ rsubs[x].pc = "none"
  /\ rsubs' = [rsubs EXCEPT ![x].pc = "ready"]
  /\ UNCHANGED <<exceptReplay, ritems>>

\* subscription.next(): an item not yet iterated is returned and the
\* subscriber starts processing it; at the end of the array it waits.
streamNext(x) ==
  /\ rsubs[x].pc = "ready"
  /\ LET n == iterNext(rsubs[x].iter, ritems)
     IN rsubs' =
          IF n.has
          THEN [rsubs EXCEPT ![x].iter = n.iter, ![x].pc = "busy",
                             ![x].got = Append(@, n.value)]
          ELSE [rsubs EXCEPT ![x].iter = n.iter, ![x].pc = "wait",
                             ![x].notify = TRUE]
  /\ UNCHANGED <<exceptReplay, ritems>>

\* The waiting next() returns the item its resolve was called with.
resumed(x) ==
  /\ rsubs[x].pc = "resolved"
  /\ rsubs' = [rsubs EXCEPT ![x].pc = "busy",
                            ![x].got = Append(@, rsubs[x].inbox)]
  /\ UNCHANGED <<exceptReplay, ritems>>

\* The subscriber has processed the value: `yield* each.next()`.
processed(x) ==
  /\ rsubs[x].pc = "busy"
  /\ rsubs' = [rsubs EXCEPT ![x].pc = "ready"]
  /\ UNCHANGED <<exceptReplay, ritems>>

ReplayInit == CoreIdle /\ ExtIdle

ReplayNext ==
  \/ \E n \in {1, 2} : replaySend(n)
  \/ \E x \in Subscribers : replaySubscribe(x)
  \/ \E x \in Subscribers : streamNext(x)
  \/ \E x \in Subscribers : resumed(x)
  \/ \E x \in Subscribers : processed(x)

ReplaySpec == ReplayInit /\ [][ReplayNext]_vars

\* ---- fx/supervisor.ts: supervise(op, backoff = superviseBackoff) ----
MaxRuns == 12        \* runs of the supervised operation in one behaviour

\* `while (waitFor >= 0)` holds: `yield* safe(op)` starts the operation.
superviseRun ==
  /\ spc = "loop"
  /\ waitFor >= 0
  /\ opRuns < MaxRuns
  /\ spc' = "op"
  /\ opRuns' = opRuns + 1
  /\ UNCHANGED <<exceptSuper, attempt, waitFor, diag, sleeping, allFailed>>

\* A supervise that goes on counting after a run that returned.
keepCounting(a) == a

\* `if (res.ok) { attempt = 0; }`
resetAttempt(a) == 0

\* The operation returned: `attempt = 0`, then `attempt += 1` and the new
\* waitFor.
opOk ==
  /\ spc = "op"
  /\ attempt' = resetAttempt(attempt) + 1
  /\ waitFor' = superviseBackoff(attempt')
  /\ spc' = "loop"
  /\ allFailed' = FALSE
  /\ UNCHANGED <<exceptSuper, opRuns, diag, sleeping>>

\* The operation threw: the `supervise` action is put with the error as
\* its payload, and `sleep(waitFor)` begins.
opFailed ==
  /\ spc = "op"
  /\ diag' = Append(diag, [payload |-> opRuns, waitFor |-> waitFor])
  /\ sleeping' = waitFor
  /\ spc' = "sleep"
  /\ UNCHANGED <<exceptSuper, attempt, waitFor, opRuns, allFailed>>

\* The sleep is over: `attempt += 1`, `waitFor = backoff(attempt)`.
superviseWake ==
  /\ spc = "sleep"
  /\ attempt' = attempt + 1
  /\ waitFor' = superviseBackoff(attempt')
  /\ sleeping' = 0
  /\ spc' = "loop"
  /\ UNCHANGED <<exceptSuper, opRuns, diag, allFailed>>

\* `while (waitFor >= 0)` fails: the supervising operation returns.
superviseEnd ==
  /\ spc = "loop"
  /\ waitFor < 0
  /\ spc' = "ended"
  /\ UNCHANGED <<exceptSuper, attempt, waitFor, opRuns, diag, sleeping,
                 allFailed>>

SuperInit == CoreIdle /\ ExtIdle

SuperNext == superviseRun \/ opOk \/ opFailed \/ superviseWake \/ superviseEnd

SuperSpec == SuperInit /\ [][SuperNext]_vars

\* ---- mdw/query.ts: err, outermost in the pipeline of a handler instance ----
\* What a stage can throw: an Error, or a value that is not one.
Thrown == {[isError |-> TRUE, message |-> "boom"],
           [isError |-> FALSE, message |-> "oops"]}

\* A safe whose catch rethrows.
rethrow(thrown) == [ok |-> FALSE, error |-> thrown.message, escaped |-> TRUE]

\* fx/safe.ts: safe(operator) when the operator throws: the catch returns
\* Err(error), with `new Error(String(error))` for a value that is no Error.
safe(thrown) == [ok |-> FALSE, error |-> thrown.message, escaped |-> FALSE]

ErrRunning == {i \in ErrIds : einst[i].pc \in {"s1", "s2"}}

\* store.dispatch(thunk()): takeEvery's loop spawns `op(action)`, which
\* runs err and, through next, the first downstream stage until it suspends.
\* A supervisor that has died receives nothing.
errDispatch ==
  /\ nErrDisp < MaxErrDispatch
  /\ nErrDisp' = nErrDisp + 1
  /\ einst' = IF esup = "alive"
              THEN [einst EXCEPT ![nErrDisp + 1] =
                      [NoErrInst EXCEPT !.pc = "s1",
                         !.late = \E j \in ErrIds : einst[j].threw]]
              ELSE einst
  /\ UNCHANGED <<exceptErr, esup, errActs>>

\* The first downstream stage calls next: the handler starts and suspends.
stageNext(i) ==
  /\ einst[i].pc = "s1"
  /\ einst' = [einst EXCEPT ![i].pc = "s2"]
  /\ UNCHANGED <<exceptErr, esup, errActs, nErrDisp>>

\* The handler and the stages above it return: `ctx.result = Ok(...)`.
stagesReturn(i) ==
  /\ einst[i].pc = "s2"
  /\ einst' = [einst EXCEPT ![i].pc = "done",
                            ![i].result = [ok |-> TRUE, error |-> ""]]
  /\ UNCHANGED <<exceptErr, esup, errActs, nErrDisp>>

\* A downstream stage throws.  `ctx.result = yield* safe(next)`; when the
\* result is not ok, err puts the `error:query` action and returns.  An
\* error that escaped err would fail the instance, and with it the
\* supervisor loop that spawned it and the instances spawned beside it.
stageThrows(i, thrown) ==
  /\ einst[i].pc \in {"s1", "s2"}
  /\ LET res == safe(thrown)
     IN IF ~res.escaped
        THEN /\ einst' = [einst EXCEPT ![i].pc = "done",
                            ![i].result = [ok |-> res.ok, error |-> res.error],
                            ![i].threw = TRUE,
                            ![i].peers = ErrRunning \ {i}]
             /\ errActs' = Append(errActs, [ctx |-> i, message |-> res.error])
             /\ esup' = esup
        ELSE /\ einst' = [j \in ErrIds |->
                            IF j = i
                            THEN [einst[j] EXCEPT !.pc = "failed",
                                                  !.threw = TRUE]
                            ELSE IF j \in ErrRunning
                                 THEN [einst[j] EXCEPT !.pc = "halted"]
                                 ELSE einst[j]]
             /\ errActs' = errActs
             /\ esup' = "dead"
  /\ UNCHANGED <<exceptErr, nErrDisp>>

ErrInit == CoreIdle /\ ExtIdle

ErrNext ==
  \/ errDispatch
  \/ \E i \in ErrIds : stageNext(i)
  \/ \E i \in ErrIds : stagesReturn(i)
  \/ \E i \in ErrIds, thrown \in Thrown : stageThrows(i, thrown)

ErrSpec == ErrInit /\ [][ErrNext]_vars

\* ---- manage: store.manage (store.ts), thunks.manage (query/thunk.ts) ----
\* The scope each scope was created in (contexts are inherited from it).
ParentOf(sc) ==
  CASE sc = "regA" -> "store"
    [] sc = "regB" -> "store"
    [] sc = "hA" -> "regA"
    [] sc = "hB" -> "regB"
    [] OTHER -> ""

\* The loop that takes the manager from its watch queue and spawns it:
\* initialize's loop for store.manage, A.register's loop for A.manage.
StartedBy(r) == IF r = "storeRes" THEN "watch" ELSE "regA"

\* A thunks.manage that sets its context on the store's scope.
setOnStore(r) == "store"

\* The scope of `scope.set(CustomContext, providedResource)`: createStore's
\* scope for store.manage, register's `useScope()` for thunks.manage.
setOn(r) == IF r = "storeRes" THEN "store" ELSE "regA"

\* A context is found on the scope itself or on one of its ancestors.
RECURSIVE Has(_, _)
Has(sc, r) ==
  \/ r \in mctx[sc]
  \/ ParentOf(sc) # "" /\ Has(ParentOf(sc), r)

\* handle.get(): the value, or undefined.
contextGet(sc, r) == IF Has(sc, r) THEN r ELSE "undefined"

\* An expect that returns undefined instead of failing.
expectLenient(sc, r) == contextGet(sc, r)

\* handle.expect(): the value, or a failure.
contextExpect(sc, r) == IF Has(sc, r) THEN r ELSE "MissingContextError"

\* Teardown that never reaches the resource's finally block.
noCleanup(pc) == 0

\* Halting the manager's task runs the finally block of a resource that
\* has provided its value, once.
cleanupRuns(pc) == IF pc = "up" THEN 1 ELSE 0

\* store.manage(name, resource) / thunksA.manage(name, resource):
\* `watch.send(manager)`.
manage(r) ==
  /\ malive
  /\ mres[r].pc = "none"
  /\ mres' = [mres EXCEPT ![r].pc = "queued"]
  /\ UNCHANGED <<exceptManage, mtasks, mctx, malive, mread>>

\* store.initialize(thunksA.register): the store's watch loop is spawned
\* and A.register runs.
initialize ==
  /\ malive
  /\ mtasks \cap {"watch", "regA"} = {}
  /\ mtasks' = mtasks \cup {"watch", "regA"}
  /\ UNCHANGED <<exceptManage, mres, mctx, malive, mread>>

\* store.run(thunks.register) for instance A or B, in a task of its own.
runRegister(t) ==
  /\ malive
  /\ t \notin mtasks
  /\ mtasks' = mtasks \cup {t}
  /\ UNCHANGED <<exceptManage, mres, mctx, malive, mread>>

\* The loop takes the manager from watch and spawns it: the resource's
\* startup operation begins.
managerSpawn(r) ==
  /\ malive
  /\ mres[r].pc = "queued"
  /\ StartedBy(r) \in mtasks
  /\ mres' = [mres EXCEPT ![r].pc = "starting"]
  /\ UNCHANGED <<exceptManage, mtasks, mctx, malive, mread>>

\* `const providedResource = yield* inputResource` returns; the context is
\* set and the manager suspends.
provided(r) ==
  /\ malive
  /\ mres[r].pc = "starting"
  /\ mres' = [mres EXCEPT ![r].pc = "up", ![r].starts = @ + 1]
  /\ mctx' = [mctx EXCEPT ![setOn(r)] = @ \cup {r}]
  /\ UNCHANGED <<exceptManage, mtasks, malive, mread>>

\* Code running in scope sc (a handler of A or of B, or code outside the
\* store) calls handle.get() and handle.expect().
CanRun(sc) ==
  \/ sc = "outside"
  \/ malive /\ ParentOf(sc) \in mtasks

readHandle(sc, r) ==
  /\ CanRun(sc)
  /\ mread' = [from |-> sc, res |-> r, up |-> mres[r].pc = "up",
               get |-> contextGet(sc, r), expect |-> contextExpect(sc, r)]
  /\ UNCHANGED <<exceptManage, mres, mtasks, mctx, malive>>

\* The store's scope is torn down: every task in it is halted.
teardown ==
  /\ malive
  /\ malive' = FALSE
  /\ mtasks' = {}
  /\ mres' = [r \in Resources |->
                IF mres[r].pc \in {"up", "starting"}
                THEN [mres[r] EXCEPT !.pc = "down",
                                     !.cleanups = @ + cleanupRuns(mres[r].pc)]
                ELSE mres[r]]
  /\ UNCHANGED <<exceptManage, mctx, mread>>

ManageInit == CoreIdle /\ ExtIdle

ManageNext ==
  \/ \E r \in Resources : manage(r)
  \/ initialize
  \/ \E t \in {"regA", "regB"} : runRegister(t)
  \/ \E r \in Resources : managerSpawn(r)
  \/ \E r \in Resources : provided(r)
  \/ \E sc \in {"hA", "hB", "outside"}, r \in Resources : readHandle(sc, r)
  \/ teardown

ManageSpec == ManageInit /\ [][ManageNext]_vars

\* ---- query/create-key.ts: createKey(name, payload) ----
MaxNum == 1          \* the numbers in a payload are 1..MaxNum

\* Strings are sequences of characters.  A JSON value is a number, null, an
\* object or an array; an object holds its members in insertion order, and
\* an array holds its items as the members "0", "1", ... that Object.keys
\* lists for it.
Digits == <<"0", "1", "2", "3", "4", "5", "6", "7", "8", "9">>
Num(n) == [tag |-> "num", n |-> n, members |-> <<>>]
Null == [tag |-> "null", n |-> 0, members |-> <<>>]
Member(k, v) == [key |-> k, value |-> v]
Obj(ms) == [tag |-> "obj", n |-> 0, members |-> ms]
Arr(vs) ==
  [tag |-> "arr", n |-> 0,
   members |-> [i \in 1..Len(vs) |-> Member(Digits[i], vs[i])]]

\* The payloads createKey is called with: leaves, arrays, and objects of up
\* to two members, in either insertion order, nested up to two levels.
Leaves == {Num(n) : n \in 1..MaxNum} \cup {Null}
ObjectsOver(V) ==
  {Obj(<<>>)}
    \cup {Obj(<<Member(k, v)>>) : k \in {"a", "b"}, v \in V}
    \cup {Obj(<<Member(ks[1], v), Member(ks[2], w)>>) :
            ks \in {<<"a", "b">>, <<"b", "a">>}, v \in V, w \in V}
Inner == ObjectsOver(Leaves) \cup {Arr(<<v>>) : v \in Leaves}
Payloads ==
  {NoPayload} \cup Leaves
    \cup {Arr(<<v>>) : v \in Leaves \cup ObjectsOver(Leaves)}
    \cup ObjectsOver(Leaves \cup Inner)
KeyNames == {<<"u">>}

\* p and q are deep-equal but for the insertion order of object keys.
RECURSIVE SameUpToOrder(_, _)
SameUpToOrder(p, q) ==
  /\ p.tag = q.tag
  /\ p.n = q.n
  /\ Len(p.members) = Len(q.members)
  /\ \A i \in DOMAIN p.members : \E j \in DOMAIN q.members :
       /\ p.members[i].key = q.members[j].key
       /\ (p.tag = "arr" => i = j)
       /\ SameUpToOrder(p.members[i].value, q.members[j].value)

\* String.prototype.charCodeAt for the characters JSON.stringify produces
\* here.
charCodeAt(c) ==
  CASE c = "{" -> 123 [] c = "}" -> 125 [] c = "[" -> 91 [] c = "]" -> 93
    [] c = "\"" -> 34 [] c = ":" -> 58 [] c = "," -> 44
    [] c = "a" -> 97 [] c = "b" -> 98
    [] c = "n" -> 110 [] c = "u" -> 117 [] c = "l" -> 108
    [] OTHER -> 48 + (CHOOSE d \in 0..9 : Digits[d + 1] = c)

\* query/util.ts: isObject
isObject(obj) == obj.tag \in {"obj", "arr"}

\* Object.keys(opts).sort(): by UTF-16 code unit.
RECURSIVE sortKeys(_)
sortKeys(ks) ==
  IF ks = {} THEN <<>>
  ELSE LET first == CHOOSE k \in ks : \A j \in ks : charCodeAt(k) <= charCodeAt(j)
       IN <<first>> \o sortKeys(ks \ {first})

\* opts[key]
valueOf(opts, key) ==
  LET at == CHOOSE i \in DOMAIN opts.members : opts.members[i].key = key
  IN opts.members[at].value

\* A deepSortObject that leaves the payload as it is.
keepOrder(opts) == opts

\* deepSortObject: a value that is no object is returned; an object, and an
\* array as well, is rebuilt as a plain object whose keys are inserted in
\* sorted order, objects among the values being rebuilt the same way.
RECURSIVE deepSortObject(_)
deepSortObject(opts) ==
  IF ~isObject(opts) THEN opts
  ELSE LET keys == sortKeys({opts.members[i].key : i \in DOMAIN opts.members})
       IN Obj([i \in 1..Len(keys) |->
                 Member(keys[i],
                        LET v == valueOf(opts, keys[i])
                        IN IF isObject(v) THEN deepSortObject(v) ELSE v)])

\* JSON.stringify
RECURSIVE stringify(_)
RECURSIVE stringifyMembers(_, _)
stringifyMembers(ms, named) ==
  IF ms = <<>> THEN <<>>
  ELSE (IF named THEN <<"\"", ms[1].key, "\"", ":">> ELSE <<>>)
         \o stringify(ms[1].value)
         \o (IF Len(ms) > 1 THEN <<",">> ELSE <<>>)
         \o stringifyMembers(Tail(ms), named)

stringify(v) ==
  CASE v.tag = "num" -> <<Digits[v.n + 1]>>
    [] v.tag = "null" -> <<"n", "u", "l", "l">>
    [] v.tag = "obj" -> <<"{">> \o stringifyMembers(v.members, TRUE) \o <<"}">>
    [] v.tag = "arr" -> <<"[">> \o stringifyMembers(v.members, FALSE) \o <<"]">>

\* 32-bit integers are held as <<high 16 bits, low 16 bits>>.
halves(n) == <<n \div 65536, n % 65536>>

RECURSIVE xorBits(_, _, _)
xorBits(a, b, n) ==
  IF n = 0 THEN 0
  ELSE ((a + b) % 2) + 2 * xorBits(a \div 2, b \div 2, n - 1)

\* x ^ y
xor(x, y) == <<xorBits(x[1], y[1], 16), xorBits(x[2], y[2], 16)>>

\* Math.imul(x, y): the low 32 bits of the product, byte by byte.
imul(x, y) ==
  LET bytes(z) == <<z[2] % 256, z[2] \div 256, z[1] % 256, z[1] \div 256>>
      xb == bytes(x)
      yb == bytes(y)
      c0 == xb[1] * yb[1]
      c1 == xb[1] * yb[2] + xb[2] * yb[1] + (c0 \div 256)
      c2 == xb[1] * yb[3] + xb[2] * yb[2] + xb[3] * yb[1] + (c1 \div 256)
      c3 == xb[1] * yb[4] + xb[2] * yb[3] + xb[3] * yb[2] + xb[4] * yb[1]
              + (c2 \div 256)
  IN <<(c3 % 256) * 256 + (c2 % 256), (c1 % 256) * 256 + (c0 % 256)>>

\* tinySimpleHash's loop: `h = Math.imul(h ^ s.charCodeAt(i++), 9 ** 9)`.
\* (h is never empty; comparing it has it computed before the next round.)
RECURSIVE hashLoop(_, _)
hashLoop(h, s) ==
  IF s = <<>> \/ h = <<>> THEN h
  ELSE hashLoop(imul(xor(h, halves(charCodeAt(Head(s)))), halves(9 ^ 9)),
                Tail(s))

\* tinySimpleHash: `let h = 9`, the loop, `return h ^ (h >>> 9)`.  The
\* result is a signed 32-bit integer: negative when its top bit is set.
tinySimpleHash(s) ==
  LET h == hashLoop(halves(9), s)
  IN xor(h, <<h[1] \div 512, (h[1] % 512) * 128 + (h[2] \div 512)>>)

RECURSIVE stripZeros(_)
stripZeros(s) ==
  IF Len(s) > 1 /\ Head(s) = "0" THEN stripZeros(Tail(s)) ELSE s

\* Number.prototype.toString(16) of a signed 32-bit integer: the hexadecimal
\* digits of its magnitude, after a "-" when it is negative.
toString16(h) ==
  LET hexDigits == <<"0", "1", "2", "3", "4", "5", "6", "7", "8", "9",
                     "a", "b", "c", "d", "e", "f">>
      hex4(n) == <<hexDigits[(n \div 4096) + 1], hexDigits[((n \div 256) % 16) + 1],
                   hexDigits[((n \div 16) % 16) + 1], hexDigits[(n % 16) + 1]>>
      negative == h[1] >= 32768
      magnitude == IF ~negative THEN h
                   ELSE IF h[2] = 0 THEN <<65536 - h[1], 0>>
                   ELSE <<65535 - h[1], 65536 - h[2]>>
  IN (IF negative THEN <<"-">> ELSE <<>>)
       \o stripZeros(hex4(magnitude[1]) \o hex4(magnitude[2]))

\* padStart(hash, len): "0" is put in front while the string is shorter.
RECURSIVE padStart(_, _)
padStart(hash, len) ==
  IF Len(hash) < len THEN padStart(<<"0">> \o hash, len) ELSE hash

\* createKey(name, payload)
createKey(name, payload) ==
  LET normJsonString == IF payload.tag # "undefined"
                        THEN stringify(deepSortObject(payload))
                        ELSE <<>>
      hash == IF normJsonString # <<>>
              THEN padStart(toString16(tinySimpleHash(normJsonString)), 8)
              ELSE <<>>
  IN IF hash # <<>> THEN name \o <<"|">> \o hash ELSE name

\* createKey is called for the two payloads.
createKeyCall ==
  /\ kkeys = <<>>
  /\ kkeys' = <<createKey(kname, kp1), createKey(kname, kp2)>>
  /\ UNCHANGED <<exceptKey, kname, kp1, kp2>>

KeyInit ==
  /\ CoreIdle
  /\ ComposeIdle
  /\ TimerIdle
  /\ PollIdle
  /\ RegIdle
  /\ ReplayIdle
  /\ SuperIdle
  /\ ErrIdle
  /\ ManageIdle
  /\ VisorIdle
  /\ BatchIdle
  /\ ThunkIdle
  /\ kname \in KeyNames
  /\ kp1 \in Payloads
  /\ kp2 \in {q \in Payloads : SameUpToOrder(kp1, q)}
  /\ kkeys = <<>>

KeyNext == createKeyCall

KeySpec == KeyInit /\ [][KeyNext]_vars

\* ---- query/thunk.ts: create, use, routes, reset, run, and a dispatch ----
MaxThunkOps == 5     \* calls made on the thunks in one behaviour
MaxCreates == 2      \* create() calls made with the same name

\* The pipeline is `thunks.use(before); thunks.use(thunks.routes());
\* thunks.use(after)`.  A stage is a global middleware, the static handler
\* given to the gen-th create(name, ...), or a middleware given to use().
Global(id) == [id |-> id, gen |-> 0]
Handler(name, gen) == [id |-> name, gen |-> gen]
Mdws == {"m1", "m2"}

\* A create that keeps the handler a name already has.
keepsFirst(name) == Handler(name, 1)

\* `middlewareMap[name]`: create stores the handler it is given under the
\* name, over the one that was there.
middlewareMap(name) == Handler(name, tcount[name])

\* A stage calls next unless it is a static handler that does not.
callsNext(stage) == stage.gen = 0 \/ tnext

\* The stages that run, in order, when a composed stack is called: each
\* stage runs, and the one after it runs if the stage calls next.
RECURSIVE entered(_)
entered(stages) ==
  IF stages = <<>> THEN <<>>
  ELSE <<Head(stages)>>
         \o (IF callsNext(Head(stages)) THEN entered(Tail(stages)) ELSE <<>>)

\* A use() that puts the given middleware in front of the static handler.
composeBefore(cur, fn) == <<fn, cur>>

\* actionFn.use: `dynamicMiddlewareMap[name] = compose([cur, fn])`
composeAfter(cur, fn) == <<cur, fn>>

\* routes(): `dynamicMiddlewareMap[ctx.name] || middlewareMap[ctx.name]`,
\* called with the router's own next as the stage that follows it; without
\* a match the router calls next.
router(name) ==
  IF tdyn[name] # <<>> THEN tdyn[name]
  ELSE IF tcount[name] > 0 THEN <<middlewareMap(name)>>
  ELSE <<>>

\* onApi(action): the ctx is built from action.payload and
\* `compose(middleware)` is run on it; the stages that ran.
onApi(name) ==
  entered(<<Global("before")>> \o router(name) \o <<Global("after")>>)

\* What run can be given: nothing, a payload, an action made by the action
\* creator, or a payload that has a `type` property of its own.
RunInputs == {"undefined", "payload", "action", "typed payload"}

\* `action && action.type`
IsAction(input) == input \in {"action", "typed payload"}

\* The action run hands to onApi: its argument when that passes for an
\* action, `actionFn(action)` otherwise.
runAction(input) == IF IsAction(input) THEN input ELSE "action"

\* onApi's `const { name, key, options } = action.payload` has a payload to
\* destructure; without one it throws.
HasPayload(action) == action = "action"

\* create(name, handler), called from plain code: the handler is stored,
\* and a supervisor for the type is sent on `watch`; a registered store's
\* loop spawns it.
createNamed(name) ==
  /\ tops < MaxThunkOps
  /\ tcount[name] < MaxCreates
  /\ tcount' = [tcount EXCEPT ![name] = @ + 1]
  /\ tops' = tops + 1
  /\ UNCHANGED <<exceptThunk, tkind, tnext, treg, tdyn, tused, tbusy, tbus,
                 tinst, tlast>>

\* store.run(thunks.register): the supervisors sent so far are spawned, and
\* the loop waits for those of later creates.
registerThunks ==
  /\ tops < MaxThunkOps
  /\ ~treg
  /\ treg' = TRUE
  /\ tops' = tops + 1
  /\ UNCHANGED <<exceptThunk, tkind, tnext, tcount, tdyn, tused, tbusy, tbus,
                 tinst, tlast>>

\* actionFn.use(fn) of the thunk created as `name`.
actionFnUse(name, fn) ==
  /\ tops < MaxThunkOps
  /\ tcount[name] > 0
  /\ tdyn' = [tdyn EXCEPT ![name] = composeAfter(middlewareMap(name), Global(fn))]
  /\ tused' = [tused EXCEPT ![name] = fn]
  /\ tops' = tops + 1
  /\ UNCHANGED <<exceptThunk, tkind, tnext, tcount, treg, tbusy, tbus, tinst,
                 tlast>>

\* thunks.reset(): `dynamicMiddlewareMap = {}`
resetMdw ==
  /\ tops < MaxThunkOps
  /\ tdyn' = [n \in ThunkNames |-> <<>>]
  /\ tused' = [n \in ThunkNames |-> ""]
  /\ tops' = tops + 1
  /\ UNCHANGED <<exceptThunk, tkind, tnext, tcount, treg, tbusy, tbus, tinst,
                 tlast>>

\* The supervisors of the type that take a dispatched action: one per
\* create of the name once registered; under takeLeading none while the
\* handler they called is suspended.
Takers(name) ==
  IF ~treg \/ (tkind = "leading" /\ tbusy[name]) THEN 0 ELSE tcount[name]

\* store.dispatch(actionFn(payload)): the action is emitted, and every
\* supervisor that takes it runs onApi in an instance of its own, which
\* may suspend in the innermost stage.
thunkDispatch(name, suspends) ==
  /\ tops < MaxThunkOps
  /\ tcount[name] > 0
  /\ tbus' = tbus + 1
  /\ tinst' = tinst + Takers(name)
  /\ tbusy' = [tbusy EXCEPT ![name] = @ \/ (suspends /\ Takers(name) > 0)]
  /\ tlast' = [op |-> tops + 1, via |-> "dispatch", name |-> name,
               times |-> Takers(name),
               trace |-> IF Takers(name) > 0 THEN onApi(name) ELSE <<>>,
               threw |-> FALSE]
  /\ tops' = tops + 1
  /\ UNCHANGED <<exceptThunk, tkind, tnext, tcount, treg, tdyn, tused>>

\* The suspended instances of the name finish.
instanceDone(name) ==
  /\ tbusy[name]
  /\ tbusy' = [tbusy EXCEPT ![name] = FALSE]
  /\ UNCHANGED <<exceptThunk, tkind, tnext, tcount, treg, tdyn, tused, tbus,
                 tinst, tlast, tops>>

\* actionFn.run(input), yielded by the caller: onApi runs in the caller's
\* task, on the action run hands to it.
actionFnRun(name, input) ==
  /\ tops < MaxThunkOps
  /\ tcount[name] > 0
  /\ tlast' = IF HasPayload(runAction(input))
              THEN [op |-> tops + 1, via |-> "run", name |-> name,
                    times |-> 1, trace |-> onApi(name), threw |-> FALSE]
              ELSE [op |-> tops + 1, via |-> "run", name |-> name,
                    times |-> 0, trace |-> <<>>, threw |-> TRUE]
  /\ tops' = tops + 1
  /\ UNCHANGED <<exceptThunk, tkind, tnext, tcount, treg, tdyn, tused, tbusy,
                 tbus, tinst>>

ThunkInit ==
  /\ CoreIdle
  /\ ComposeIdle
  /\ TimerIdle
  /\ PollIdle
  /\ RegIdle
  /\ ReplayIdle
  /\ SuperIdle
  /\ ErrIdle
  /\ ManageIdle
  /\ VisorIdle
  /\ BatchIdle
  /\ KeyIdle
  /\ tkind \in {"every", "leading"}
  /\ tnext \in BOOLEAN
  /\ tcount = [n \in ThunkNames |-> 0]
  /\ treg = FALSE
  /\ tdyn = [n \in ThunkNames |-> <<>>]
  /\ tused = [n \in ThunkNames |-> ""]
  /\ tbusy = [n \in ThunkNames |-> FALSE]
  /\ tbus = 0
  /\ tinst = 0
  /\ tlast = NoCall
  /\ tops = 0

ThunkNext ==
  \/ \E n \in ThunkNames : createNamed(n)
  \/ registerThunks
  \/ \E n \in ThunkNames, fn \in Mdws : actionFnUse(n, fn)
  \/ resetMdw
  \/ \E n \in ThunkNames, suspends \in BOOLEAN : thunkDispatch(n, suspends)
  \/ \E n \in ThunkNames : instanceDone(n)
  \/ \E n \in ThunkNames, input \in RunInputs : actionFnRun(n, input)

ThunkSpec == ThunkInit /\ [][ThunkNext]_vars


\* ---- batched store notifications (store/batch.ts, store/store.ts) ----
\* The store is created with middleware = [createBatchMdw(queue)], so the
\* update pipeline is updateMdw, batchMdw, logMdw, notifyChannelMdw,
\* notifyListenersMdw.  Each update adds one to the snapshot, so the snapshot
\* counts the updates committed so far.
MaxUpdates == 4

BatchCall(pc, commit) == [pc |-> pc, commit |-> commit, fired |-> 0]

\* update(updater) up to its first suspension: updateMdw commits the new
\* snapshot and calls next; batchMdw returns at once when a batch is pending,
\* and otherwise raises the flag and hands its callback to `queue`, which
\* either keeps it for later or calls it before returning (`sync`).
batchUpdate(sync) ==
  /\ Len(bcalls) < MaxUpdates
  /\ bstate' = bstate + 1
  /\ IF ~bnotifying
     THEN IF sync
          THEN /\ bnotifying' = FALSE
               /\ bcalls' = Append(bcalls, [BatchCall("logMdw", bstate + 1)
                                              EXCEPT !.fired = bstate + 1])
               /\ bqueue' = bqueue
          ELSE /\ bnotifying' = TRUE
               /\ bcalls' = Append(bcalls, BatchCall("waiting", bstate + 1))
               /\ bqueue' = bqueue \cup {Len(bcalls) + 1}
     ELSE /\ bcalls' = Append(bcalls, BatchCall("skipped", bstate + 1))
          /\ UNCHANGED <<bnotifying, bqueue>>
  /\ UNCHANGED <<core, exceptBatch, blog, bchan, blisten>>

\* The queue calls the callback it was given: the flag drops and the action
\* resolves, which resumes the call if it is still waiting.
sendFires(c) ==
  /\ c \in bqueue
  /\ bqueue' = bqueue \ {c}
  /\ bnotifying' = FALSE
  /\ bcalls' = [bcalls EXCEPT ![c].fired = bstate,
                              ![c].pc = IF @ = "waiting" THEN "logMdw" ELSE @]
  /\ UNCHANGED <<core, exceptBatch, bstate, blog, bchan, blisten>>

\* The task that called update() is halted while batchMdw waits.  The
\* action's teardown is `() => {}`: the flag and the queued callback stay.
haltWaiting(c) ==
  /\ c \in 1..Len(bcalls)
  /\ bcalls[c].pc = "waiting"
  /\ bcalls' = [bcalls EXCEPT ![c].pc = "halted"]
  /\ UNCHANGED <<core, exceptBatch, bnotifying, bstate, bqueue, blog, bchan, blisten>>

\* The rest of the pipeline, one middleware per step: the store action, the
\* channel signal, then the listeners, which read the snapshot of the moment.
notifyRound(c) ==
  /\ c \in 1..Len(bcalls)
  /\ \/ /\ bcalls[c].pc = "logMdw"
        /\ blog' = blog + 1
        /\ bcalls' = [bcalls EXCEPT ![c].pc = "notifyChannelMdw"]
        /\ UNCHANGED <<bchan, blisten>>
     \/ /\ bcalls[c].pc = "notifyChannelMdw"
        /\ bchan' = bchan + 1
        /\ bcalls' = [bcalls EXCEPT ![c].pc = "notifyListenersMdw"]
        /\ UNCHANGED <<blog, blisten>>
     \/ /\ bcalls[c].pc = "notifyListenersMdw"
        /\ blisten' = Append(blisten, [by |-> c, read |-> bstate])
        /\ bcalls' = [bcalls EXCEPT ![c].pc = "returned"]
        /\ UNCHANGED <<blog, bchan>>
  /\ UNCHANGED <<core, exceptBatch, bnotifying, bstate, bqueue>>

BatchInit ==
  /\ CoreIdle
  /\ ExtIdle

BatchNext ==
  \/ \E sync \in BOOLEAN : batchUpdate(sync)
  \/ \E c \in 1..MaxUpdates : sendFires(c)
  \/ \E c \in 1..MaxUpdates : haltWaiting(c)
  \/ \E c \in 1..MaxUpdates : notifyRound(c)

BatchSpec == BatchInit /\ [][BatchNext]_vars


\* ---- a thunk's supervisor under supervise (thunk.ts: create, curVisor) ----
\* create() sends `() => supervise(curVisor)` to the watch channel, and
\* curVisor runs takeEvery(type, onApi).  The supervised operation is the
\* takeEvery loop: it has no exit of its own, so `safe(op)` ends only with
\* the error of a handler instance that nothing caught.
MaxVisorDispatch == 11
MaxRunning == 2

\* A loop that would still take actions once supervise has returned.
listensAfterEnd(pc) == pc \in {"op", "ended"}

\* useActions(pattern) is subscribed from the start of the loop to its end.
listening(pc) == pc = "op"

\* Instances that would outlive the loop that spawned them.
outlive(n) == 0

\* The loop's task fails: the instances it spawned are halted with it.
haltedWith(n) == n

\* store.dispatch(thunk action): the loop, if there is one, spawns a handler.
visorDispatch ==
  /\ vdisp < MaxVisorDispatch
  /\ vdisp' = vdisp + 1
  /\ IF listening(spc)
     THEN /\ vrunning < MaxRunning
          /\ vtaken' = vtaken + 1
          /\ vrunning' = vrunning + 1
     ELSE UNCHANGED <<vtaken, vrunning>>
  /\ vlate' = IF spc = "ended" THEN vlate + 1 ELSE vlate
  /\ UNCHANGED <<core, exceptVisor, vhalted>>

\* A handler instance runs to its end.
handlerReturns ==
  /\ spc = "op"
  /\ vrunning > 0
  /\ vrunning' = vrunning - 1
  /\ UNCHANGED <<core, exceptVisor, vdisp, vtaken, vhalted, vlate>>

\* A handler instance throws and no middleware catches it: the error fails
\* the loop, safe(op) gives Err, supervise puts its action and sleeps.
handlerThrows ==
  /\ spc = "op"
  /\ vrunning > 0
  /\ vhalted' = vhalted + haltedWith(vrunning - 1)
  /\ vrunning' = (vrunning - 1) - haltedWith(vrunning - 1)
  /\ diag' = Append(diag, [payload |-> opRuns, waitFor |-> waitFor])
  /\ sleeping' = waitFor
  /\ spc' = "sleep"
  /\ UNCHANGED <<core, composeVars, timerVars, pollVars, regVars, replayVars,
                 errVars, manageVars, keyVars, thunkVars, batchVars,
                 attempt, waitFor, opRuns, allFailed, vdisp, vtaken, vlate>>

VisorInit ==
  /\ CoreIdle
  /\ ExtIdle

VisorNext ==
  \/ superviseRun
  \/ superviseWake
  \/ superviseEnd
  \/ visorDispatch
  \/ handlerReturns
  \/ handlerThrows

VisorSpec == VisorInit /\ [][VisorNext]_vars

\* ======================= properties: the supervisors =======================
IsThunk(a) == a.type = ThunkType
SpawnedActs == [k \in 1..nInst |-> inst[k].act]
SupPending ==
  (IF sup.pc = "got" THEN <<sup.cur>> ELSE <<>>) \o subs["sup"].queue
ThunkSent == SelectSeq(subs["sup"].sent, IsThunk)
Increasing(acts) == \A j, k \in 1..Len(acts) : j < k => acts[j].id < acts[k].id
Completed == {i \in InstIds : inst[i].pc = "done"}
Settled == Running = {} /\ SupIdle

\* C1: under takeLatest at most one handler instance is running at any
\* time; an instance being halted counts as running until its teardown is
\* over, so the supervisor never spawns next to one that is still halting.
C1_LatestAtMostOne ==
  kind = "latest" => Cardinality(Running) <= 1

C1_Witness ==
  /\ kind = "latest"
  /\ inst[1].pc = "halted"
  /\ 1 \in superseded
  /\ inst[2].pc = "await"

\* C2: under takeLatest every store update is made by the newest instance
\* spawned so far, and when a new instance is spawned every earlier one is
\* dead, a halted one having run its finally block's update to its end.
C2_LatestNoStaleUpdate ==
  [][kind = "latest" =>
       /\ (Len(committed') > Len(committed) =>
             calls'[Len(calls')].caller = nInst)
       /\ (nInst' > nInst =>
             \A i \in 1..nInst :
               /\ inst[i].pc \in {"done", "halted"}
               /\ (i \in superseded =>
                     \E c \in 1..Len(calls) :
                       calls[c].caller = i /\ calls[c].status = "ret"))]_vars

C2_Witness ==
  /\ kind = "latest"
  /\ nInst = 2
  /\ inst[1].pc = "halted"
  /\ inst[2].pc = "done"
  /\ Len(committed) = 2
  /\ calls[1].caller = 1
  /\ calls[2].caller = 2

\* C3: under takeLatest an instance that was suspended when a later thunk
\* action arrived never runs the code after its suspension point, and once
\* two such dispatches have been dealt with exactly the second instance has
\* completed normally.
C3_LatestSecondWins ==
  kind = "latest" =>
    /\ \A i \in superseded :
         inst[i].pc \in {"await", "cleanup0", "cleanup", "halted"}
    /\ (Settled /\ Len(ThunkSent) = 2 /\ 1 \in superseded) =>
         (Completed = {2} /\ inst[1].pc = "halted")

C3_Witness ==
  /\ kind = "latest"
  /\ Settled
  /\ Len(ThunkSent) = 2
  /\ 1 \in superseded
  /\ Completed = {2}

C5_LeadingDropsWhileBusy ==
  kind = "leading" =>
    /\ Cardinality(Running) <= 1
    /\ \A i \in 1..nInst : inst[i].act.id \notin busySent
    /\ \A id \in idleSent :
         \/ \E i \in 1..nInst : inst[i].act.id = id
         \/ subs["sup"].queue # <<>> /\ Head(subs["sup"].queue).id = id

C5_Witness ==
  /\ kind = "leading"
  /\ nInst = 2
  /\ inst[1].pc = "done"
  /\ busySent # {}
  /\ inst[2].act.id \in idleSent
  /\ inst[2].act.id > Min(busySent)

\* C6: what a subscriber has received plus what its queue still holds is
\* exactly the matching actions sent since it subscribed, in the order of
\* the dispatch calls and of the positions within one dispatched array.
C6_SubscriberOrder ==
  Subscribed("obs") =>
    LET Matches(a) == matcher(subs["obs"].pattern, a)
        got == observed \o subs["obs"].queue
    IN /\ got = SelectSeq(subs["obs"].sent, Matches)
       /\ Increasing(got)
       /\ Increasing(subs["obs"].sent)

C6_Witness ==
  /\ Subscribed("obs")
  /\ subs["obs"].pattern = StrPattern(ThunkType)
  /\ Len(observed) = 2
  /\ Len(subs["obs"].sent) = 3
  /\ subs["obs"].sent[2].type = OtherType


\* ======================= properties: the store =======================
FullOrder ==
  <<"updateMdw", "userMdw", "logMdw", "notifyChannelMdw", "notifyListenersMdw">>
CallIds == 1..Len(calls)
IsReset(c) == calls[c].updater.items[1].op = "reset"
Labels(c) ==
  [k \in 1..Len(calls[c].updater.items) |->
     <<calls[c].updater.items[k].call, calls[c].updater.items[k].k>>]

\* The snapshot after the first k committed calls, applied one after another.
RECURSIVE Linearized(_)
Linearized(k) ==
  IF k = 0 THEN initialState
  ELSE IF IsReset(committed[k]) THEN initialState
       ELSE Linearized(k - 1) \o Labels(committed[k])

Times(name, trace) == Cardinality({j \in 1..Len(trace) : trace[j] = name})
Ran(name) == {c \in CallIds : Times(name, calls[c].trace) > 0}

\* Snapshot `snap` shows both mutations of call c, m1 right before m2, or
\* neither of them.
Paired(snap, c) ==
  /\ \A j \in 1..Len(snap) :
       snap[j] = <<c, 1>> => (j < Len(snap) /\ snap[j + 1] = <<c, 2>>)
  /\ \A j \in 1..Len(snap) :
       snap[j] = <<c, 2>> => (j > 1 /\ snap[j - 1] = <<c, 1>>)

Shows(snap, c) ==
  \A k \in 1..Len(Labels(c)) : \E j \in 1..Len(snap) : snap[j] = Labels(c)[k]
Serialised ==
  /\ committed = [k \in CallIds |-> k]
  /\ state = Linearized(Len(committed))

\* C7 as stated: update() calls that overlap are serialised (the snapshot is
\* always the result of applying every call made so far, each once, one
\* after another), and every snapshot read in a later stage of a call
\* contains all of that call's mutations.
C7_StagesSeeOwnMutations ==
  /\ Serialised
  /\ \A c \in CallIds : ~IsReset(c) =>
       \A j \in 1..Len(calls[c].seen) : Shows(calls[c].seen[j], c)

\* C7, amended: update() calls that overlap are serialised, and every
\* snapshot read in a later stage of a call is the one left by that call's
\* commit or by the commit of a later call; it contains the call's
\* mutations unless a call committed in between has removed them.
C7_UpdatesLinearized ==
  /\ Serialised
  /\ \A c \in CallIds : \A j \in 1..Len(calls[c].seen) :
       /\ \E k \in c..Len(committed) : calls[c].seen[j] = Linearized(k)
       /\ (~IsReset(c) /\ \A d \in (c + 1)..Len(calls) : ~IsReset(d)) =>
            Shows(calls[c].seen[j], c)

C7_Witness ==
  /\ Len(calls) = 3
  /\ calls[1].updater.isArray
  /\ IsReset(2)
  /\ calls[3].updater.isArray
  /\ calls[1].status = "ret"
  /\ calls[1].trace = FullOrder
  /\ calls[1].seen[4] = initialState
  /\ calls[2].wait
  /\ calls[3].trace = FullOrder
  /\ calls[3].seen[4] = Linearized(3)

\* C8: an update() given [m1, m2] commits once, with one patch list holding
\* m1's patch then m2's, runs each notification stage at most once (once
\* each when every stage calls next), and no snapshot anyone reads ever has
\* m1's effect without m2's.
C8_ArrayUpdateAtomic ==
  \A c \in CallIds : calls[c].updater.isArray =>
    /\ Cardinality({k \in 1..Len(committed) : committed[k] = c}) = 1
    /\ calls[c].patches = <<[op |-> "add", by |-> <<c, 1>>],
                            [op |-> "add", by |-> <<c, 2>>]>>
    /\ \A j \in 1..Len(FullOrder) : Times(FullOrder[j], calls[c].trace) <= 1
    /\ (calls[c].status = "ret" /\ ~calls[c].skipped) =>
         \A j \in 3..5 : Times(FullOrder[j], calls[c].trace) = 1
    /\ Paired(state, c)
    /\ \A d \in CallIds : \A j \in 1..Len(calls[d].seen) :
         Paired(calls[d].seen[j], c)

C8_Witness ==
  /\ Len(calls) = 1
  /\ calls[1].updater.isArray
  /\ calls[1].status = "ret"
  /\ ~calls[1].skipped
  /\ calls[1].notified = {"L1"}
  /\ state = <<<<1, 1>>, <<1, 2>>>>

\* C9: the stages of an update() call run in the order commit, user
\* middleware, store action, channel, listeners, each once; a call whose
\* stages all called next has run all five, one that did not has stopped
\* there; store actions and channel messages are as many as the calls that
\* ran those stages.
C9_StagesInOrder ==
  /\ \A c \in CallIds :
       /\ calls[c].trace = SubSeq(FullOrder, 1, Len(calls[c].trace))
       /\ (calls[c].status = "ret" /\ ~calls[c].skipped) =>
            calls[c].trace = FullOrder
       /\ calls[c].skipped => calls[c].trace = SubSeq(FullOrder, 1, 2)
  /\ nEmit = Cardinality(Ran("logMdw"))
  /\ chan = Cardinality(Ran("notifyChannelMdw"))

C9_Witness ==
  /\ Len(calls) = 2
  /\ calls[1].skipped
  /\ calls[2].status = "ret"
  /\ calls[2].trace = FullOrder
  /\ calls[2].notified = {"L1"}
  /\ nEmit = 1
  /\ chan = 1

Ids(a, b) == [k \in 1..(b - a + 1) |-> a + k - 1]
Befores(a, b) == [k \in 1..(b - a + 1) |-> <<"before", a + k - 1>>]
Afters(b, a) == [k \in 1..(b - a + 1) |-> <<"after", b - k + 1>>]
IsPrefix(p, q) == Len(p) <= Len(q) /\ p = SubSeq(q, 1, Len(p))
Count(e) == Cardinality({j \in 1..Len(log) : log[j] = e})
Executed == {id \in 0..Len(stack) : Count(<<"before", id>>) > 0}
CallsOf(id) == IF id = Len(stack) THEN mdw[1] ELSE stack[id + 1]

\* Every stage of the array calls next once; a tail, if any, does not call
\* it twice.
EveryStageOnce ==
  /\ \A k \in 1..Len(stack) : stack[k] = 1
  /\ mdw # <<2>>

\* The last position that runs: the tail if there is one.
Last == IF mdw = <<>> THEN Len(stack) - 1 ELSE Len(stack)

\* C11: when every stage calls next exactly once, what has been executed is
\* always a prefix of: the code before next of stages 1..n in array order
\* (then the tail), followed by the code after next in the reverse order;
\* the composed call ends with all of it executed and never raises.
C11_BeforeInOrderAfterReversed ==
  EveryStageOnce =>
    /\ IsPrefix(log, Befores(0, Last) \o Afters(Last, 0))
    /\ cstat = "done" => log = Befores(0, Last) \o Afters(Last, 0)
    /\ cstat # "thrown"

C11_Witness ==
  /\ stack = <<1, 1, 1>>
  /\ mdw = <<1>>
  /\ cstat = "done"
  /\ Len(log) = 8

\* The first stage that finishes without calling next, all stages before it
\* calling next once.
Stops(i) ==
  /\ i < Len(stack)
  /\ stack[i + 1] = 0
  /\ \A k \in 1..i : stack[k] = 1

\* C12: when stage i finishes without calling next, no later stage and not
\* the tail is ever executed, the composed call does not raise, and it ends
\* with the stages before i having run their code after next, innermost
\* first.
C12_NoNextSkipsTheRest ==
  \A i \in 0..(MaxStages + 1) : Stops(i) =>
    /\ \A id \in Executed : id <= i
    /\ cstat # "thrown"
    /\ cstat = "done" => log = Befores(0, i) \o Afters(i, 0)

C12_Witness ==
  /\ stack = <<1, 0, 1>>
  /\ mdw = <<1>>
  /\ cstat = "done"
  /\ log = <<<<"before", 0>>, <<"before", 1>>, <<"after", 1>>, <<"after", 0>>>>

\* C13: a second next() in one stage raises at that call: no stage ever has
\* two next() calls behind it, no stage's body is entered twice, a composed
\* call that ended normally has run no stage that calls next twice to its
\* end, and one that raised did so in such a stage, as the last thing that
\* happened.
C13_SecondNextThrows ==
  /\ \A j \in 1..Len(frames) : frames[j].called <= 1
  /\ \A id \in 0..(MaxStages + 1) : Count(<<"before", id>>) <= 1
  /\ \A id \in Executed : CallsOf(id) = 2 => Count(<<"after", id>>) = 0
  /\ cstat = "done" => \A id \in Executed : CallsOf(id) # 2
  /\ cstat = "thrown" =>
       /\ log[Len(log)][1] = "throw"
       /\ CallsOf(log[Len(log)][2]) = 2
       /\ Count(<<"throw", log[Len(log)][2]>>) = 1

C13_Witness ==
  /\ stack = <<1, 2, 1>>
  /\ cstat = "thrown"
  /\ Count(<<"after", 2>>) = 1
  /\ Count(<<"before", 2>>) = 1
  /\ log[Len(log)] = <<"throw", 1>>


\* ======================= properties: timer =======================
\* The step in which onTimer deals with an action of key k.
Takes(k) == tq # <<>> /\ Head(tq).payload.key = k /\ tq' = <<>>
Invokes(k) == runs'[k] = runs[k] + 1

\* C14: a handler invocation for a key is only started when the key is not
\* in the throttle map, and never less than the window after the dispatch
\* that invoked the handler for that key before, unless a clear-timers
\* action has evicted the key in between.
C14_OnceWithinWindow ==
  [][\A k \in Keys : runs'[k] # runs[k] =>
       /\ Invokes(k)
       /\ k \notin map
       /\ \/ invokedAt[k] = -1
          \/ now - invokedAt[k] >= Window
          \/ evictedBy[k] = "clear"]_vars

C14_Witness ==
  /\ runs["k1"] = 1
  /\ ignored["k1"] = 1
  /\ nBurst = 2
  /\ now - invokedAt["k1"] < Window
  /\ now > invokedAt["k1"]
  /\ returnedAt["k1"] >= 0
  /\ "k1" \in map

\* C15 as stated: an action of key k that onTimer takes more than the
\* window after the dispatch that invoked the handler for k invokes the
\* handler again, whatever the handler's duration.
C15_AgainAfterWindowFromDispatch ==
  [][\A k \in Keys :
       (Takes(k) /\ invokedAt[k] >= 0 /\ now - invokedAt[k] > Window)
         => Invokes(k)]_vars

\* C15, amended: an action of key k that onTimer takes more than the window
\* after the handler invocation for k has returned invokes the handler
\* again.
C15_AgainAfterWindowFromReturn ==
  [][\A k \in Keys :
       (Takes(k) /\ returnedAt[k] >= 0 /\ now - returnedAt[k] > Window)
         => Invokes(k)]_vars

C15_Witness ==
  /\ runs["k1"] = 2
  /\ invokedAt["k1"] = now
  /\ now > Window + 1
  /\ evictedBy["k1"] = "none"
  /\ clearedIn["k2"] = "none"
  /\ runs["k2"] = 0
  /\ nBurst = 2

\* C16: once the supervisor has dealt with a dispatch, every key that was
\* dispatched while it was not in the throttle map has had its handler
\* invoked.
C16_AbsentKeyInvokedAtOnce ==
  TimerQuiescent => owed = {}

\* C17: once the supervisor has dealt with a dispatch, a key that was in
\* the throttle map when a clear-timers action that is "*" or names it was
\* dispatched is in the map no longer, and a key is only ever evicted by a
\* clear-timers action if one that is "*" or names it was dispatched.
C17_ClearEvictsSuppressedKey ==
  TimerQuiescent =>
    \A k \in Keys :
      /\ clearedIn[k] # "none" => k \notin map
      /\ evictedBy[k] = "clear" => clearedIn[k] # "none"

\* C40: a key is in the throttle map exactly while its activate task
\* exists; the key is put there by the step that invokes the handler and
\* leaves only when the handler has returned and either the window has
\* passed since then or a clear-timers action has won the race.  The clear
\* is only heard in the race: a dispatch made while the handler runs,
\* whatever it holds, leaves the task as it is and the key in the map, and
\* an action of a key that is in the map invokes nothing.
C40_ClearIgnoredWhileHandlerRuns ==
  [][\A k \in Keys :
       /\ (k \in map') <=> (tact'[k].pc # "none")
       /\ (k \notin map /\ k \in map') => (Invokes(k) /\ invokedAt'[k] = now)
       /\ (k \in map /\ k \notin map') =>
            /\ returnedAt[k] >= 0
            /\ \/ now >= returnedAt[k] + Window
               \/ tact[k].pc = "cleared"
       /\ (tact[k].pc # "cleared" /\ tact'[k].pc = "cleared") =>
            (tact[k].pc = "race" /\ returnedAt[k] >= 0)
       /\ (tact[k].pc = "op" /\ nBurst' # nBurst) =>
            (tact'[k] = tact[k] /\ k \in map')
       /\ (Takes(k) /\ k \in map) => runs' = runs
    ]_vars

\* A clear-timers action that names k1 was dispatched while k1's handler
\* ran; the handler has returned since, k1 is still in the map, and a later
\* action of k1 was taken and ignored.
C40_Witness ==
  /\ clearedIn["k1"] = "op"
  /\ returnedAt["k1"] >= 0
  /\ tact["k1"].pc = "race"
  /\ "k1" \in map
  /\ ignored["k1"] = 1
  /\ runs["k1"] = 1

\* ======================= properties: poll =======================
InFlight == IF pfire.pc = "op" THEN 1 ELSE 0

\* C18: under poll(interval) without a cancelType, the handler is invoked
\* when a run starts, at the time the triggering action was dispatched, and
\* after that exactly when a sleep of the run's interval is over; whenever
\* control is back in the event loop a run is active exactly if an odd number
\* of dispatches of the polled type have been made, so the dispatch that
\* stops a run does not start another one and no invocation happens between
\* the stop and the next trigger.
C18_StartStopAlternate ==
  [][cancelType = "" =>
       /\ invoked' # invoked =>
            /\ invoked' = invoked + 1
            /\ pnow' = pnow
            /\ \/ ppc = "take" /\ pq # <<>> /\ nTrig % 2 = 1
               \/ /\ ppc = "race" /\ ~pwon
                  /\ pfire.pc = "sleep"
                  /\ pnow = pret + ptimer
       /\ PollQuiescent' => (ppc' = "race" <=> nTrig' % 2 = 1)
       /\ ppc' = "take" => pfire'.pc = "none"]_vars

\* Three dispatches of the polled type: the first run invoked the handler
\* twice (once more after its sleep), the second dispatch stopped it, the
\* third started the run that is active now.
C18_Witness ==
  /\ cancelType = ""
  /\ nTrig = 3
  /\ pBurst = 3
  /\ ppc = "race"
  /\ invoked = 3
  /\ returned = 2
  /\ pfire.pc = "op"
  /\ PollQuiescent

\* C19: whenever control is back in the event loop, no run is still active
\* into which an action of the polled type, or of the configured cancelType,
\* has been dispatched.
C19_SameTypeAndCancelTypeStop == PollQuiescent => ~mustStop

\* C20 as stated: once a run has ended, every handler invocation that was
\* started has run to completion.
C20_InFlightRunsToCompletion ==
  (PollQuiescent /\ ppc = "take") => returned = invoked

\* C20, amended: when the cancellation wins the race while a handler
\* invocation is in flight, the run ends in that step with the invocation
\* halted where it is suspended: it does not return then, and it never
\* returns later (every invocation started has returned, was halted, or is
\* the one in flight).
C20_InFlightHalted ==
  [][/\ (ppc = "race" /\ pwon /\ pfire.pc = "op" /\ ppc' = "take") =>
          /\ returned' = returned
          /\ haltedOps' = haltedOps + 1
          /\ pfire'.pc = "none"
     /\ invoked' = returned' + haltedOps' + (IF pfire'.pc = "op" THEN 1 ELSE 0)
    ]_vars

\* A run was cancelled while its handler was in flight, and ended.
C20_Witness ==
  /\ haltedOps = 1
  /\ ppc = "take"
  /\ invoked = 1
  /\ returned = 0
  /\ pfire.pc = "none"
  /\ PollQuiescent

\* C21: a run started by dispatching the thunk's action creator with
\* `timer: t` in its payload sleeps t between handler invocations.
C21_PayloadTimerOverrides ==
  (ppc = "race" /\ "options" \in DOMAIN pact.payload) =>
     ptimer = pact.payload.options.timer

\* ======================= properties: register =======================
Active(r) == reg[r].pc \in {"ready", "wait", "resolved"}

\* C22: in every store, whatever its id, each thunk has at most one
\* supervisor however often register() is run there, and a dispatch runs
\* its handler at most once.
C22_OneSupervisorPerStore ==
  /\ \A st \in StoreIds, t \in Thunks : visors[<<st, t>>] <= 1
  /\ ran <= 1

\* C23: once every register() loop is waiting for the next thunk, each
\* registration that is active has started the supervisor of every thunk
\* created so far, once each, in creation order.
C23_EveryThunkWired ==
  RegQuiescent => \A r \in Regs : Active(r) => reg[r].got = watch

\* ======================= properties: the replay signal =======================
\* C24: a subscriber that is waiting for the next value has received every
\* value sent so far, each once and in send order.
C24_EveryValueDelivered ==
  \A x \in Subscribers : rsubs[x].pc = "wait" => rsubs[x].got = ritems

\* ======================= properties: the bus, late subscribers ==============
\* C25: a subscriber with pattern "*" has received, or still has queued,
\* every action dispatched so far, those dispatched before it subscribed
\* included, in dispatch order (a before b for a dispatched array [a, b]).
C25_LateSubscriberReplay ==
  (Subscribed("obs") /\ subs["obs"].pattern = Wild) =>
    LET got == observed \o subs["obs"].queue
    IN /\ Len(got) = nEmit
       /\ \A k \in 1..Len(got) : got[k].id = k

\* ======================= properties: supervise =======================
\* C26: while every run of the supervised operation has failed, the k-th
\* failure has put exactly the k-th `supervise` action, carrying that run's
\* error, and is followed by a sleep of 2^k * 10 ms; the operation is run at
\* most 10 times, and once the supervising operation has ended it has been
\* run exactly 10 times (it is not run after the end: no step leaves
\* "ended").
C26_TenRunsThenGiveUp ==
  [][/\ allFailed' =>
          /\ opRuns' <= 10
          /\ Len(diag') = (IF spc' = "op" THEN opRuns' - 1 ELSE opRuns')
          /\ \A k \in 1..Len(diag') :
               diag'[k] = [payload |-> k, waitFor |-> 2 ^ k * 10]
          /\ spc' = "sleep" => sleeping' = 2 ^ opRuns' * 10
          /\ spc' = "ended" => opRuns' = 10
     /\ spc = "ended" => spc' = "ended" /\ opRuns' = opRuns
    ]_vars

C26_Witness ==
  /\ allFailed
  /\ spc = "ended"
  /\ opRuns = 10
  /\ Len(diag) = 10
  /\ diag[10].waitFor = 10240

\* C39: the supervising operation ends only from the loop test, with a
\* negative waitFor.  A run that returns resets the counter (attempt is 1
\* afterwards, waitFor is backoff(1) = 20 >= 0), sleeps nothing and puts no
\* `supervise` action, so the next step of the loop runs the operation
\* again; while no run has failed the supervising operation has not ended.
C39_EndsOnlyOnNegativeBackoff ==
  [][/\ (spc # "ended" /\ spc' = "ended") => (spc = "loop" /\ waitFor < 0)
     /\ (spc = "op" /\ spc' = "loop") =>
          /\ attempt' = 1
          /\ waitFor' = superviseBackoff(1) /\ waitFor' >= 0
          /\ sleeping' = 0
          /\ diag' = diag
     /\ diag' = <<>> => spc' # "ended"
    ]_vars

\* The operation has returned three times in a row and is running for the
\* fourth time: nothing was put, nothing was slept.
C39_Witness ==
  /\ diag = <<>>
  /\ ~allFailed
  /\ opRuns = 4
  /\ spc = "op"
  /\ attempt = 1

\* ======================= properties: mdw.err =======================
ErrActsOf(i) == Len(SelectSeq(errActs, LAMBDA a : a.ctx = i))

\* C27: with err outermost, an instance whose downstream stage threw has
\* ctx.result set to an Err carrying the error and has put exactly one
\* `error:query` action, and instances that did not throw have put none;
\* the supervisor loop is alive, no instance was halted or failed, and
\* every action dispatched so far has got its instance.
C27_ErrContainsFailure ==
  /\ esup = "alive"
  /\ \A i \in ErrIds :
       /\ einst[i].pc \notin {"halted", "failed"}
       /\ i <= nErrDisp <=> einst[i].pc # "none"
       /\ ErrActsOf(i) = (IF einst[i].threw THEN 1 ELSE 0)
       /\ einst[i].threw =>
            /\ einst[i].pc = "done"
            /\ ~einst[i].result.ok
            /\ einst[i].result.error \in {t.message : t \in Thrown}
       /\ (einst[i].pc = "done" /\ ~einst[i].threw) => einst[i].result.ok

\* Instance 1 threw while instance 2 was running; instance 2 finished
\* normally afterwards, and instance 3, dispatched after the failure, was
\* handled as well.
C27_Witness ==
  /\ einst[1].threw
  /\ einst[1].peers = {2}
  /\ einst[2].pc = "done" /\ einst[2].result.ok
  /\ einst[3].late
  /\ einst[3].pc = "done" /\ einst[3].result.ok
  /\ Len(errActs) = 1

\* ======================= properties: manage =======================
\* The scopes in which a resource's context is to be found once it is up.
Within(r) ==
  IF r = "storeRes" THEN {"store", "regA", "regB", "hA", "hB"}
  ELSE {"regA", "hA"}

\* C28: a read made from code of the scope the resource is managed for,
\* before the resource's startup has completed, got undefined from get()
\* and a failure from expect(); a read made after it got the provided value
\* from both.
C28_GetAndExpect ==
  (mread.from # "" /\ mread.from \in Within(mread.res)) =>
     IF mread.up
     THEN mread.get = mread.res /\ mread.expect = mread.res
     ELSE mread.get = "undefined" /\ mread.expect = "MissingContextError"

C28_Witness ==
  /\ mread.from = "hA"
  /\ mread.res = "thunkRes"
  /\ mread.up
  /\ mread.expect = "thunkRes"

\* C29: once started, a resource managed at the store is readable from the
\* handlers of both thunks instances; a resource managed at thunks instance
\* A is readable from A's handlers once started, and a handler of instance
\* B never reads it.
C29_StoreWideVersusInstance ==
  /\ (mread.res = "storeRes" /\ mread.from \in {"hA", "hB"} /\ mread.up) =>
        mread.get = "storeRes"
  /\ (mread.res = "thunkRes" /\ mread.from = "hA" /\ mread.up) =>
        mread.get = "thunkRes"
  /\ (mread.res = "thunkRes" /\ mread.from = "hB") =>
        mread.get = "undefined" /\ mread.expect = "MissingContextError"

\* A handler of B looked for A's resource while it was up and found nothing.
C29_Witness ==
  /\ mread.from = "hB"
  /\ mread.res = "thunkRes"
  /\ mread.up
  /\ mread.get = "undefined"
  /\ mres["storeRes"].pc = "up"

\* C30: while the store's scope is alive, a resource that has started is
\* up, was started once and its cleanup has not run; once the scope is torn
\* down, the cleanup of every resource that had started has run exactly
\* once, and that of the others not at all.
C30_UpUntilTeardown ==
  \A r \in Resources :
    /\ mres[r].starts <= 1
    /\ mres[r].cleanups = (IF ~malive /\ mres[r].starts = 1 THEN 1 ELSE 0)
    /\ (malive /\ mres[r].starts = 1) => mres[r].pc = "up"

C30_Witness ==
  /\ ~malive
  /\ mres["storeRes"].cleanups = 1
  /\ mres["thunkRes"].cleanups = 1

\* ======================= properties: createKey =======================
\* C33: the keys of two payloads that are deep-equal but for the insertion
\* order of object keys are the same.
C33_KeyIgnoresInsertionOrder ==
  kkeys # <<>> => kkeys[1] = kkeys[2]

\* Two payloads that differ in the insertion order at both levels have been
\* given their keys.
C33_Witness ==
  /\ kkeys # <<>>
  /\ kp1 = Obj(<<Member("a", Obj(<<Member("a", Num(1)), Member("b", Null)>>)),
                 Member("b", Num(1))>>)
  /\ kp2 = Obj(<<Member("b", Num(1)),
                 Member("a", Obj(<<Member("b", Null), Member("a", Num(1))>>))>>)

\* C34: the key of an absent payload is the name; the key of any other
\* payload is the name, "|", and exactly 8 hexadecimal digits.
C34_NameThenEightHexDigits ==
  kkeys # <<>> =>
    IF kp1 = NoPayload THEN kkeys[1] = kname
    ELSE /\ Len(kkeys[1]) = Len(kname) + 1 + 8
         /\ SubSeq(kkeys[1], 1, Len(kname)) = kname
         /\ kkeys[1][Len(kname) + 1] = "|"
         /\ \A i \in (Len(kname) + 2)..Len(kkeys[1]) :
              kkeys[1][i] \in {"0", "1", "2", "3", "4", "5", "6", "7", "8", "9",
                               "a", "b", "c", "d", "e", "f"}

\* ======================= properties: thunks =======================
\* C31: a run executes the whole pipeline once, in the caller's task, and
\* returns the ctx; it emits nothing on the bus, spawns no handler instance,
\* and the state of the supervisors is as it was.
C31_RunBypassesDispatch ==
  [][(tlast' # tlast /\ tlast'.via = "run") =>
       /\ ~tlast'.threw
       /\ tlast'.times = 1
       /\ tlast'.trace =
            entered(<<Global("before")>> \o router(tlast'.name)
                      \o <<Global("after")>>)
       /\ tbus' = tbus
       /\ tinst' = tinst
       /\ tbusy' = tbusy
    ]_vars

\* The stages C32 expects for a thunk that was created once: the static
\* handler, then the middleware of the use() in force if there is one, then
\* the rest of the pipeline; nothing after a static handler that does not
\* call next.
Override(name) == IF tused[name] = "" THEN <<>> ELSE <<Global(tused[name])>>
ExpectedTrace(name) ==
  <<Global("before"), Handler(name, 1)>>
    \o (IF tnext THEN Override(name) \o <<Global("after")>> ELSE <<>>)

\* C32: every execution of a thunk, by dispatch or by run, runs the stages
\* expected from the use() and reset() calls made so far; a use() on one
\* thunk leaves what is routed to every other name as it was.
C32_UseComposesAfterStatic ==
  [][/\ (tlast' # tlast /\ tlast'.times > 0 /\ tcount[tlast'.name] = 1) =>
          tlast'.trace = ExpectedTrace(tlast'.name)
     /\ \A n \in ThunkNames :
          (tused'[n] # tused[n] /\ tused'[n] # "") =>
             \A other \in ThunkNames \ {n} :
                tdyn'[other] = tdyn[other] /\ tcount'[other] = tcount[other]
    ]_vars

\* Thunk a was dispatched while use(m1) was in force and ran its static
\* handler, then m1, then the rest; thunk b exists and has no override.
C32_Witness ==
  /\ tnext
  /\ tused["a"] = "m1"
  /\ tcount["b"] = 1 /\ tused["b"] = "" /\ tdyn["b"] = <<>>
  /\ tlast.via = "dispatch" /\ tlast.name = "a" /\ tlast.times = 1
  /\ tlast.trace = <<Global("before"), Handler("a", 1), Global("m1"),
                     Global("after")>>

\* C38: when a name has been created twice, the handler stored for it is
\* the later one; once registered, a dispatch of the type under takeEvery,
\* with no use() in force for the name, is taken by two supervisors, each of
\* which runs the pipeline with the later handler and not the earlier one.
C38_LaterHandlerRunsTwice ==
  [][\A n \in ThunkNames :
       /\ tcount[n] = 2 => middlewareMap(n) = Handler(n, 2)
       /\ (/\ tlast' # tlast /\ tlast'.via = "dispatch" /\ tlast'.name = n
           /\ tcount[n] = 2 /\ treg /\ tkind = "every" /\ tused[n] = "") =>
            /\ tlast'.times = 2
            /\ tinst' = tinst + 2
            /\ tlast'.trace[2] = Handler(n, 2)
            /\ \A k \in DOMAIN tlast'.trace : tlast'.trace[k] # Handler(n, 1)
    ]_vars

C38_Witness ==
  /\ tkind = "every"
  /\ treg
  /\ tcount["a"] = 2
  /\ tlast.via = "dispatch" /\ tlast.name = "a" /\ tlast.times = 2
  /\ tinst = 2
  /\ tlast.trace[2] = Handler("a", 2)

\* ---- properties of batched notifications ----
BatchQuiet ==
  /\ bqueue = {}
  /\ \A c \in 1..Len(bcalls) : bcalls[c].pc \in {"skipped", "returned", "halted"}

RoundsOf(c) == Cardinality({i \in 1..Len(blisten) : blisten[i].by = c})

\* C35: with createBatchMdw installed, an update made while a notification
\* is pending commits and notifies nobody itself; each firing of send is
\* followed by exactly one round of store action, channel signal and
\* listeners, and the listeners read every update committed by then; once
\* every send has fired and the rounds have run, no committed update is left
\* without a round after it.
C35_BatchedUpdatesAreNotified ==
  /\ \A c \in 1..Len(bcalls) :
       /\ bcalls[c].commit = c
       /\ bcalls[c].pc = "skipped" => RoundsOf(c) = 0
       /\ RoundsOf(c) <= 1
       /\ bcalls[c].fired > 0 /\ BatchQuiet => RoundsOf(c) = 1
  /\ \A i \in 1..Len(blisten) : blisten[i].read >= bcalls[blisten[i].by].fired
  /\ blog >= bchan /\ bchan >= Len(blisten)
  /\ BatchQuiet => blog = Len(blisten) /\ bchan = Len(blisten)
  /\ BatchQuiet /\ bstate > 0 =>
       /\ blisten # <<>>
       /\ blisten[Len(blisten)].read = bstate

\* ---- properties of a thunk's supervised supervisor ----
\* C36: the takeEvery loop never returns, so supervise never resets
\* `attempt`: it counts every failure of the supervisor, the tenth one ends
\* supervise for good, and no thunk action dispatched after that is handled.
C36_TenFailuresOverallEndSupervisor ==
  /\ [](/\ attempt = Len(diag) + (IF spc = "sleep" THEN 0 ELSE 1)
        /\ Len(diag) <= 10
        /\ spc = "ended" => Len(diag) = 10
        /\ Len(diag) = 10 => spc \in {"sleep", "loop", "ended"})
  /\ [][spc = "ended" =>
          spc' = "ended" /\ vtaken' = vtaken /\ vrunning' = 0]_vars

C36_Witness ==
  /\ spc = "ended"
  /\ Len(diag) = 10
  /\ vlate > 0
  /\ vdisp = vtaken + vlate

\* C37: when a handler instance throws under takeEvery, the loop ends with
\* it: the instances still running are halted, actions dispatched while
\* supervise sleeps are not handled, and actions are handled again only
\* once the loop has been started anew.
C37_FailedLoopDropsActions ==
  [][/\ Len(diag') > Len(diag) =>
          /\ vrunning' = 0
          /\ vhalted' = vhalted + vrunning - 1
          /\ spc' = "sleep"
     /\ vtaken' > vtaken => spc = "op" /\ opRuns = Len(diag) + 1
     /\ vdisp' > vdisp /\ spc # "op" => vtaken' = vtaken /\ vrunning' = vrunning
     /\ spc \in {"sleep", "loop", "ended"} => vrunning = 0]_vars

C37_Witness ==
  /\ vhalted > 0
  /\ Len(diag) = 1
  /\ opRuns = 2
  /\ vdisp >= vtaken + 1
  /\ vrunning > 0

====
